---- MODULE Spec2Model ----
(***************************************************************************)
(* Model of the AWS AI Manager conversation front-end:                     *)
(*   utils/conversation_handler.py  (conversation flow state machine)      *)
(*   utils/parameter_extractor.py   (parameter extraction, missing params) *)
(*   utils/intent_classifier.py     (regex + LLM intent classification)    *)
(*   utils/context_manager.py       (smart defaults)                       *)
(*   services/terraform_service.py  (_run_terraform_apply, validators)     *)
(*                                                                         *)
(* Strings are atomic in TLA+, so the string primitives the code uses      *)
(* (lower(), substring test, int(), regular-expression validators) are     *)
(* given as tables over the finite message alphabet Msgs.                  *)
(***************************************************************************)
EXTENDS Integers, Sequences, FiniteSets, TLC

(***************************************************************************)
(* Bounds of the model                                                     *)
(***************************************************************************)
\* user messages handled in one session
MaxTurns == 6
\* parameters of RESOURCE_PARAMS a request may leave unextracted (besides
\* the request that extracts nothing at all)
MaxMissing == 2
\* resources a list function may return
MaxResources == 2

(***************************************************************************)
(* Message alphabet and string primitives                                  *)
(***************************************************************************)
\* what the user types when the assistant offers a choice
Msgs ==
    {"yes", "Y", "no", "cancel", "modify", "done", "list", "retry", "1", "1 ",
     "2", "name", "volume size", "web", "bad"}

\* a reply that is no valid value of any parameter
Unusable ==
    "N/A"

\* str.lower()
Lower(s) ==
    CASE s = "Y" -> "y"
      [] s = "Web" -> "web"
      [] s = "WEB" -> "web"
      [] s = "I-2" -> "i-2"
      [] s = "YES no" -> "yes no"
      [] s = "N/A" -> "n/a"
      [] s = "S" -> "s"
      [] OTHER -> s

\* str.strip()
Strip(s) ==
    IF s = "1 " THEN "1" ELSE s

\* `sub in s` for the substrings the handlers test on a lower-cased message
Contains(s, sub) ==
    \/ s = sub
    \/ sub = "size" /\ s = "volume size"
    \/ sub \in {"yes", "no"} /\ s = "yes no"
    \/ sub \in {"cancel", "retry"} /\ s = "cancel the retry"

\* int(s): [ok |-> FALSE] stands for ValueError
ParseInt(s) ==
    CASE s = "1" -> [ok |-> TRUE, val |-> 1]
      [] s = "0" -> [ok |-> TRUE, val |-> 0]
      [] s = "-1" -> [ok |-> TRUE, val |-> -1]
      [] s = "3" -> [ok |-> TRUE, val |-> 3]
      [] s = "2" -> [ok |-> TRUE, val |-> 2]
      [] s = "20" -> [ok |-> TRUE, val |-> 20]
      [] s = "50" -> [ok |-> TRUE, val |-> 50]
      [] OTHER -> [ok |-> FALSE, val |-> 0]

\* truthiness of a parameter value
Truthy(v) ==
    v # ""

(***************************************************************************)
(* Finite maps (Python dicts; iteration order is never relevant here)      *)
(***************************************************************************)
EmptyParams ==
    [x \in {} |-> ""]

Put(m, k, v) ==
    [x \in (DOMAIN m) \cup {k} |-> IF x = k THEN v ELSE m[x]]

\* dict.update
Update(m, n) ==
    [x \in (DOMAIN m) \cup (DOMAIN n) |-> IF x \in DOMAIN n THEN n[x] ELSE m[x]]

\* dict.get(k, d)
Get(m, k, d) ==
    IF k \in DOMAIN m THEN m[k] ELSE d

Range(s) ==
    {s[i] : i \in 1..Len(s)}

(***************************************************************************)
(* Tables of conversation_handler.py                                       *)
(***************************************************************************)
ResourceTypes ==
    {"ec2", "s3", "rds", "dynamodb", "iam_user", "iam_role", "iam_policy"}

\* names of RESOURCE_PARAMS, in order
RESOURCE_PARAMS ==
    [ec2 |-> <<"ec2_availabilityzone", "ec2_name", "ec2_ami", "ec2_type",
               "vol1_root_size", "vol1_volume_type", "ec2_ebs2_data_size">>,
     s3 |-> <<"bucket_name">>,
     rds |-> <<"db_identifier", "db_engine", "db_engine_version",
               "db_instance_class", "allocated_storage", "db_username",
               "db_password", "db_publicly_accessible">>,
     dynamodb |-> <<"table_name", "hash_key_name", "hash_key_type">>,
     iam_user |-> <<"user_name">>,
     iam_role |-> <<"role_name">>,
     iam_policy |-> <<"policy_name", "policy_description", "policy_document">>]

ParamNames(rt) ==
    Range(RESOURCE_PARAMS[rt])

RESOURCE_IDENTIFIERS ==
    [ec2 |-> "Name", s3 |-> "Name", rds |-> "DBInstanceIdentifier",
     dynamodb |-> "TableName", iam_user |-> "UserName",
     iam_role |-> "RoleName", iam_policy |-> "PolicyName"]

RESOURCE_DESTROY_IDS ==
    [ec2 |-> "InstanceId", s3 |-> "Name", rds |-> "DBInstanceIdentifier",
     dynamodb |-> "TableName", iam_user |-> "UserName",
     iam_role |-> "RoleName", iam_policy |-> "PolicyName"]

\* PARAMETER_ALIASES restricted to the aliases that occur in Msgs
PARAMETER_ALIASES ==
    [ec2 |-> ("name" :> "ec2_name") @@ ("type" :> "ec2_type")
             @@ ("volume size" :> "vol1_root_size"),
     s3 |-> [name |-> "bucket_name"],
     rds |-> [engine |-> "db_engine"],
     dynamodb |-> EmptyParams,
     iam_user |-> EmptyParams,
     iam_role |-> EmptyParams,
     iam_policy |-> EmptyParams]

\* param_keywords of _find_parameter_by_input, in dict order, restricted to
\* the keywords that are substrings of a message of Msgs
PARAM_KEYWORDS ==
    <<[param |-> "ec2_name", keywords |-> {"name"}],
      [param |-> "ec2_ami", keywords |-> {"ami"}],
      [param |-> "ec2_type", keywords |-> {"type", "size"}],
      [param |-> "vol1_root_size", keywords |-> {"volume size"}],
      [param |-> "db_engine", keywords |-> {"engine"}],
      [param |-> "db_instance_class", keywords |-> {"size"}]>>

(***************************************************************************)
(* Validators                                                              *)
(***************************************************************************)
\* re.fullmatch(r'^ami-[0-9a-fA-F]{8}([0-9a-fA-F]{9})?$', ami_id)
ValidateAmiId(v) ==
    v \in {"ami-12345678"}

\* instance_type in common_instance_types
ValidateInstanceType(v) ==
    v \in {"t2.micro", "t2.small", "t2.medium", "t3.micro", "m5.large", "c5.xlarge"}

\* volume_type in valid_volume_types
ValidateVolumeType(v) ==
    v \in {"gp2", "gp3", "io1", "io2", "st1", "sc1", "standard"}

\* re.fullmatch(r'^[a-z0-9-]+', identifier) and '--' not in identifier
ValidateDbIdentifier(v) ==
    v \in {"mydb", "mysql", "admin", "secret", "no", "web", "id", "20", "50",
           "1", "2", "gp3", "ami-12345678"}

(***************************************************************************)
(* parameter_extractor.py                                                  *)
(***************************************************************************)
\* keys of ParameterExtractor.parameter_patterns
PatternTypes ==
    {"ec2", "s3", "rds", "dynamodb"}

\* required_mapping of get_missing_parameters
REQUIRED_MAPPING ==
    [ec2 |-> <<"ec2_name", "ec2_ami", "ec2_type", "vol1_volume_type",
               "ec2_availabilityzone">>,
     s3 |-> <<"bucket_name">>,
     rds |-> <<"db_identifier", "db_engine", "db_engine_version",
               "db_instance_class", "allocated_storage", "db_username",
               "db_password">>,
     dynamodb |-> <<"table_name", "hash_key_name", "hash_key_type">>]

\* the loop of get_missing_parameters were it to test absence only
\* (param not in extracted_params), taking an empty value for a supplied one
RECURSIVE MissingFromAbsentOnly(_, _, _)
MissingFromAbsentOnly(required_params, extracted_params, from) ==
    IF from > Len(required_params) THEN <<>>
    ELSE LET param == required_params[from]
             rest == MissingFromAbsentOnly(required_params, extracted_params, from + 1)
         IN IF param \notin DOMAIN extracted_params
            THEN <<param>> \o rest
            ELSE rest

\* the loop of get_missing_parameters over required_params[from..]
RECURSIVE MissingFrom(_, _, _)
MissingFrom(required_params, extracted_params, from) ==
    IF from > Len(required_params) THEN <<>>
    ELSE LET param == required_params[from]
             rest == MissingFrom(required_params, extracted_params, from + 1)
         IN IF param \notin DOMAIN extracted_params \/ ~Truthy(extracted_params[param])
            THEN <<param>> \o rest
            ELSE rest

GetMissingParameters(extracted_params, resource_type) ==
    IF resource_type \notin PatternTypes THEN <<>>
    ELSE LET required_params ==
                 IF resource_type \in DOMAIN REQUIRED_MAPPING
                 THEN REQUIRED_MAPPING[resource_type] ELSE <<>>
         IN MissingFrom(required_params, extracted_params, 1)

\* instance_type_mappings / volume_type_mappings (the entries whose key is a
\* single word)
INSTANCE_TYPE_MAPPINGS ==
    [micro |-> "t3.micro", small |-> "t3.small", medium |-> "t3.medium",
     large |-> "t3.large", xlarge |-> "t3.xlarge", powerful |-> "m5.large"]

VOLUME_TYPE_MAPPINGS ==
    [ssd |-> "gp3", hdd |-> "sc1", magnetic |-> "standard"]

ApplyIntelligentMappings(params, resource_type) ==
    LET m1 == IF "ec2_type" \in DOMAIN params
                 /\ Lower(params["ec2_type"]) \in DOMAIN INSTANCE_TYPE_MAPPINGS
              THEN Put(params, "ec2_type", INSTANCE_TYPE_MAPPINGS[Lower(params["ec2_type"])])
              ELSE params
    IN IF "vol1_volume_type" \in DOMAIN m1
          /\ Lower(m1["vol1_volume_type"]) \in DOMAIN VOLUME_TYPE_MAPPINGS
       THEN Put(m1, "vol1_volume_type", VOLUME_TYPE_MAPPINGS[Lower(m1["vol1_volume_type"])])
       ELSE m1

\* f"create_{resource_type}"
CreateIntentOf ==
    [ec2 |-> "create_ec2", s3 |-> "create_s3", rds |-> "create_rds",
     dynamodb |-> "create_dynamodb", iam_user |-> "create_iam_user",
     iam_role |-> "create_iam_role", iam_policy |-> "create_iam_policy"]

\* f"destroy_{resource_type}"
DestroyIntentOf ==
    [ec2 |-> "destroy_ec2", s3 |-> "destroy_s3", rds |-> "destroy_rds",
     dynamodb |-> "destroy_dynamodb", iam_user |-> "destroy_iam_user",
     iam_role |-> "destroy_iam_role", iam_policy |-> "destroy_iam_policy"]

\* UserProfile.__post_init__: common_instance_types of a fresh profile
DefaultInstanceTypes ==
    <<"t3.micro", "t3.small">>

\* UserProfile.preferred_region
PreferredRegion ==
    "us-east-1"

\* context_manager.get_smart_defaults
GetSmartDefaults(common_instance_types, intent) ==
    LET d1 == IF intent \notin {CreateIntentOf[rt] : rt \in ResourceTypes}
              THEN Put(EmptyParams, "region", PreferredRegion)
              ELSE EmptyParams
    IN IF intent = "create_ec2" /\ common_instance_types # <<>>
       THEN Put(d1, "ec2_type", common_instance_types[Len(common_instance_types)])
       ELSE d1

\* confidences are percentages: 0.7 is 70
AiMergeThreshold ==
    70

\* extract_parameters_hybrid, given what the regex pass and the LLM pass
\* extracted from the message
ExtractParametersHybrid(regex_params, ai_params, ai_confidence, resource_type, common_instance_types) ==
    LET merged == IF ai_confidence > AiMergeThreshold
                  THEN Update(regex_params, ai_params)
                  ELSE Update(ai_params, regex_params)
        mapped == ApplyIntelligentMappings(merged, resource_type)
        smart_defaults == GetSmartDefaults(common_instance_types, CreateIntentOf[resource_type])
    IN Update(smart_defaults, mapped)

(***************************************************************************)
(* intent_classifier.py                                                    *)
(***************************************************************************)
\* keys of IntentClassifier.intent_patterns, in insertion order
INTENT_ORDER ==
    <<"create_ec2", "create_s3", "create_rds", "create_dynamodb",
      "create_iam_user", "create_iam_role", "create_iam_policy",
      "destroy_ec2", "destroy_s3", "destroy_rds", "destroy_dynamodb",
      "destroy_iam_user", "destroy_iam_role", "destroy_iam_policy",
      "list_ec2", "list_s3", "list_rds", "list_dynamodb", "list_iam_user",
      "list_iam_role", "list_iam_policy", "modify_ec2", "cost_estimation",
      "help", "status">>

Intents ==
    Range(INTENT_ORDER)

\* confidence returned for a regex match (0.8)
RegexConfidence ==
    80

\* threshold of classify_intent_hybrid (0.8)
HybridThreshold ==
    80

\* the loop of classify_intent_regex over intent_patterns from position i;
\* matched is the set of intents one of whose patterns matches the message
RECURSIVE RegexScan(_, _)
RegexScan(matched, i) ==
    IF i > Len(INTENT_ORDER) THEN [intent |-> "None", confidence |-> 0]
    ELSE IF INTENT_ORDER[i] \in matched
         THEN [intent |-> INTENT_ORDER[i], confidence |-> RegexConfidence]
         ELSE RegexScan(matched, i + 1)

ClassifyIntentRegex(matched) ==
    RegexScan(matched, 1)

\* the test of classify_intent_hybrid were it strict (regex_confidence > 0.8)
HybridUsesRegexStrict(regex_confidence) ==
    regex_confidence > HybridThreshold

\* classify_intent_hybrid decides from the regex result alone
HybridUsesRegex(regex_confidence) ==
    regex_confidence >= HybridThreshold

\* classify_intent_hybrid after the LLM answered ai
HybridWithAi(regex, ai) ==
    IF ai.confidence > regex.confidence
    THEN [intent |-> ai.intent, confidence |-> ai.confidence, params |-> ai.params]
    ELSE IF regex.intent # "None" /\ (ai.intent = "None" \/ ai.intent = "unknown")
    THEN [intent |-> regex.intent, confidence |-> regex.confidence, params |-> EmptyParams]
    ELSE IF ai.intent # "None" /\ ai.intent # "unknown"
    THEN [intent |-> ai.intent, confidence |-> ai.confidence, params |-> ai.params]
    ELSE [intent |-> "unknown", confidence |-> 0, params |-> EmptyParams]

\* classify_intent(message, context); ai is what the LLM would answer
ClassifyIntent(matched, ai) ==
    LET regex == ClassifyIntentRegex(matched)
    IN IF HybridUsesRegex(regex.confidence)
       THEN [intent |-> regex.intent, confidence |-> regex.confidence,
             params |-> EmptyParams, ai_called |-> FALSE]
       ELSE HybridWithAi(regex, ai) @@ [ai_called |-> TRUE]

(***************************************************************************)
(* State                                                                   *)
(***************************************************************************)
VARIABLES
    flow,         \* st.session_state.conversation_flow
    turns,        \* user messages handled so far
    out,          \* assistant messages appended by the last step
    call,         \* Terraform function invoked by the last step, and the
                  \* user message that step handled
    lastPreview,  \* history: the most recent preview shown in this flow
    prompted,     \* history: parameters prompted for in this flow, in order
    listed,       \* history: result of the list function in this flow
    picked,       \* history: how the selected resource was chosen
    rejected,     \* history: an answer of this flow failed validation
    llm,          \* error-analysis prompts sent to the LLM by the last step
    gmp,          \* one run of get_missing_parameters
    xph,          \* one run of extract_parameters
    cls,          \* one run of classify_intent
    tfa,          \* one run of _run_terraform_apply
    frb           \* one run of _find_resource_by_identifier

flowVars ==
    <<flow, turns, out, call, lastPreview, prompted,
      listed, picked, rejected, llm>>

vars ==
    <<flow, turns, out, call, lastPreview, prompted,
      listed, picked, rejected, llm, gmp, xph, cls, tfa, frb>>

FrbIdle ==
    [pc |-> "idle", user_input |-> "", resources |-> <<>>, resource_type |-> "",
     result |-> [none |-> "none"]]

GmpIdle ==
    [pc |-> "idle", resource_type |-> "", extracted |-> EmptyParams, missing |-> <<>>]

XphIdle ==
    [pc |-> "idle", resource_type |-> "", regex_params |-> EmptyParams,
     ai_params |-> EmptyParams, ai_confidence |-> 0,
     common_instance_types |-> <<>>, result |-> EmptyParams]

NoClassification ==
    [intent |-> "None", confidence |-> 0, params |-> EmptyParams]

ClsIdle ==
    [pc |-> "idle", matched |-> {}, ai |-> NoClassification,
     regex |-> [intent |-> "None", confidence |-> 0],
     result |-> NoClassification, ai_called |-> FALSE]

TfaIdle ==
    [pc |-> "idle", init_rc |-> 0, apply_rc |-> 0, output_rc |-> 0,
     stdout |-> [kind |-> "empty", doc |-> EmptyParams],
     steps |-> <<>>, result |-> EmptyParams]

(***************************************************************************)
(* conversation_handler.py: the flow dictionary                            *)
(***************************************************************************)
\* None, for names, messages and values
None ==
    ""

\* None, for current_param_index
NoIndex ==
    -1

NoResource ==
    [none |-> "none"]

\* a conversation_flow dictionary; a key the code never set reads as
\* None / False / empty, as flow.get() does
BlankFlow ==
    [active |-> FALSE, type |-> None, resource_type |-> None,
     params |-> EmptyParams, current_param_index |-> NoIndex,
     current_param_name |-> None, missing_params |-> <<>>,
     enhanced_flow |-> FALSE, preview_shown |-> FALSE,
     awaiting_confirmation |-> FALSE, confirmed |-> FALSE,
     awaiting_param_modification_decision |-> FALSE,
     awaiting_new_param_value |-> FALSE, awaiting_param_to_modify |-> FALSE,
     param_to_modify |-> None, error_occurred |-> FALSE,
     awaiting_version_selection |-> FALSE, supported_versions |-> <<>>,
     has_resources |-> FALSE, resources |-> <<>>, awaiting_selection |-> FALSE,
     selected_resource |-> NoResource, new_value |-> None]

NoCall ==
    [fn |-> "none", rt |-> None, params |-> EmptyParams, id |-> None, value |-> None,
     msg |-> None]

NoPreview ==
    [kind |-> "none", params |-> EmptyParams]

NoListing ==
    [fetched |-> FALSE, resources |-> <<>>]

NoPick ==
    [by |-> "none", resource |-> NoResource]

\* an assistant message: its kind, the parameter it is about and the
\* parameter values its content displays
Say(kind, param, shown) ==
    [kind |-> kind, param |-> param, shown |-> shown]

\* the session state a handler works on, with the history it extends
Ctx(user_message) ==
    [flow |-> flow, out |-> <<>>, call |-> NoCall, lastPreview |-> lastPreview,
     prompted |-> prompted, listed |-> listed, picked |-> picked,
     rejected |-> rejected, llm |-> <<>>, msg |-> user_message]

\* a function of terraform_service is invoked
Invoke(c, fn, params, id, value) ==
    [c EXCEPT !.call = [fn |-> fn, rt |-> c.flow.resource_type, params |-> params,
                        id |-> id, value |-> value, msg |-> c.msg]]

Emit(c, m) ==
    [c EXCEPT !.out = Append(@, m)]

\* _get_ai_error_analysis: the prompt carries "- {k}: {v}" for every
\* parameter it is given
Prompt(parameters) ==
    [kind |-> "error_analysis", params |-> parameters]

\* diagnose_error(error_message, traceback, intent, parameters, session_id):
\* analyze_error sends one prompt, and generate_error_report a second one
\* when parameters is not empty
Diagnose(c, parameters) ==
    LET analysed == [Emit(c, Say("diagnosis", None, EmptyParams))
                     EXCEPT !.llm = Append(@, Prompt(parameters))]
    IN IF parameters # EmptyParams
       THEN [analysed EXCEPT !.llm = Append(@, Prompt(parameters))]
       ELSE analysed

\* st.session_state.conversation_flow = {...}: a new flow starts
StartFlow(c, f) ==
    [c EXCEPT !.flow = f, !.lastPreview = NoPreview, !.prompted = <<>>,
              !.listed = NoListing, !.picked = NoPick, !.rejected = FALSE]

\* 'password' in param_key.lower()
IsPasswordKey(k) ==
    k = "db_password"

Masked ==
    "********"

\* the Configuration lines of a preview
PreviewLines(params) ==
    [k \in DOMAIN params |-> IF IsPasswordKey(k) THEN Masked ELSE params[k]]

\* _show_resource_preview
ShowResourcePreview(c) ==
    [c EXCEPT !.out = Append(@, Say("preview", None, PreviewLines(c.flow.params))),
              !.flow.awaiting_confirmation = TRUE,
              !.lastPreview = [kind |-> "create", params |-> c.flow.params]]

\* _show_modify_preview
ShowModifyPreview(c) ==
    [c EXCEPT !.out = Append(@, Say("modify_preview", None, PreviewLines(c.flow.params))),
              !.flow.awaiting_confirmation = TRUE,
              !.lastPreview = [kind |-> "modify", params |-> c.flow.params]]

\* create_function(**params) binds its keyword arguments only when params
\* has exactly the parameters of the function (TypeError otherwise); then
\* Terraform succeeds or fails
CreateOutcomes(rt, params) ==
    IF DOMAIN params = ParamNames(rt) THEN {TRUE, FALSE} ELSE {FALSE}

\* _execute_create_resource; ok: the create function returned
ExecuteCreateResource(c, ok) ==
    IF ~c.flow.preview_shown
    THEN [ShowResourcePreview(c) EXCEPT !.flow.preview_shown = TRUE]
    ELSE LET called == Invoke(c, "create", c.flow.params, None, None)
         IN IF ok /\ ok \in CreateOutcomes(c.flow.resource_type, c.flow.params)
            THEN [Emit(Emit(called, Say("created", None, EmptyParams)),
                       Say("completed", None, EmptyParams))
                  EXCEPT !.flow.active = FALSE]
            ELSE [Emit(Diagnose(Emit(called, Say("create_error", None, EmptyParams)),
                                c.flow.params),
                       Say("recovery_options", None, EmptyParams))
                  EXCEPT !.flow.error_occurred = TRUE]

\* the fuzzy-matching loop of _find_parameter_by_input from entry i
RECURSIVE FuzzyFrom(_, _, _)
FuzzyFrom(user_input_lower, current_params, i) ==
    IF i > Len(PARAM_KEYWORDS) THEN None
    ELSE IF /\ PARAM_KEYWORDS[i].param \in DOMAIN current_params
            /\ \E keyword \in PARAM_KEYWORDS[i].keywords :
                   Contains(user_input_lower, keyword)
         THEN PARAM_KEYWORDS[i].param
         ELSE FuzzyFrom(user_input_lower, current_params, i + 1)

\* _find_parameter_by_input
FindParameterByInput(user_input, resource_type, current_params) ==
    LET user_input_lower == Strip(Lower(user_input))
        aliases == PARAMETER_ALIASES[resource_type]
    IN IF user_input_lower \in DOMAIN aliases THEN aliases[user_input_lower]
       ELSE IF user_input_lower \in DOMAIN current_params THEN user_input_lower
       ELSE FuzzyFrom(user_input_lower, current_params, 1)

(***************************************************************************)
(* handle_create_resource_flow                                             *)
(***************************************************************************)
\* user_message.lower() in ['yes', 'y', 'confirm', 'proceed']
IsConfirm(user_message) ==
    Lower(user_message) \in {"yes", "y", "confirm", "proceed"}

\* user_message.lower() in ['modify', 'change', 'edit']
IsModify(user_message) ==
    Lower(user_message) \in {"modify", "change", "edit"}

\* user_message.lower() in ['cancel', 'abort', 'no', 'n']
IsCancel(user_message) ==
    Lower(user_message) \in {"cancel", "abort", "no", "n"}

\* the while loop were it to skip nothing
SkipNothing(names, params, i) ==
    i

\* the while loop that skips parameters already in params; indexes are
\* 0-based as in the code, names[i + 1] is params_for_resource[i]
RECURSIVE SkipProvided(_, _, _)
SkipProvided(names, params, i) ==
    IF i < Len(names) /\ names[i + 1] \in DOMAIN params
    THEN SkipProvided(names, params, i + 1)
    ELSE i

\* the confirmation step
CreateConfirmation(c, user_message, env) ==
    IF IsConfirm(user_message)
    THEN ExecuteCreateResource(
             [c EXCEPT !.flow.awaiting_confirmation = FALSE, !.flow.confirmed = TRUE],
             env.ok)
    ELSE IF IsModify(user_message)
    THEN [Emit(c, Say("which_parameter", None, EmptyParams))
          EXCEPT !.flow.awaiting_confirmation = FALSE,
                 !.flow.awaiting_param_modification_decision = TRUE]
    ELSE IF IsCancel(user_message)
    THEN [Emit(c, Say("cancelled", None, EmptyParams)) EXCEPT !.flow.active = FALSE]
    ELSE Emit(c, Say("confirm_reminder", None, EmptyParams))

\* the parameter modification step
CreateParamDecision(c, user_message) ==
    IF Lower(user_message) \in {"list", "show", "current"}
    THEN Emit(c, Say("current_parameters", None, c.flow.params))
    ELSE IF Lower(user_message) \in {"done", "finished", "proceed"}
    THEN ShowResourcePreview(
             [c EXCEPT !.flow.awaiting_param_modification_decision = FALSE])
    ELSE LET param_to_modify ==
                 FindParameterByInput(user_message, c.flow.resource_type, c.flow.params)
         IN IF param_to_modify # None
            THEN [Emit(c, Say("current_value", param_to_modify,
                              IF param_to_modify \in DOMAIN c.flow.params
                              THEN Put(EmptyParams, param_to_modify,
                                       c.flow.params[param_to_modify])
                              ELSE EmptyParams))
                  EXCEPT !.flow.param_to_modify = param_to_modify,
                         !.flow.awaiting_param_modification_decision = FALSE,
                         !.flow.awaiting_new_param_value = TRUE]
            ELSE Emit(c, Say("parameter_not_found", None, EmptyParams))

\* the new-value step
CreateNewParamValue(c, user_message) ==
    LET param_to_modify == c.flow.param_to_modify
    IN [Emit(c, Say("parameter_updated", param_to_modify,
                    Put(EmptyParams, param_to_modify, Strip(user_message))))
        EXCEPT !.flow.params = Put(@, param_to_modify, Strip(user_message)),
               !.flow.awaiting_new_param_value = FALSE,
               !.flow.param_to_modify = None,
               !.flow.awaiting_param_modification_decision = TRUE]

\* the error recovery block (if flow.get("error_occurred"))
CreateErrorRecovery(c, user_message, env) ==
    IF c.flow.awaiting_param_modification_decision
    THEN IF Contains(Lower(user_message), "yes")
         THEN [Emit(c, Say("which_parameter", None, EmptyParams))
               EXCEPT !.flow.awaiting_param_modification_decision = FALSE,
                      !.flow.awaiting_param_to_modify = TRUE]
         ELSE IF Contains(Lower(user_message), "no")
         THEN ExecuteCreateResource(
                  [c EXCEPT !.flow.awaiting_param_modification_decision = FALSE,
                            !.flow.error_occurred = FALSE],
                  env.ok)
         ELSE Emit(c, Say("yes_or_no", None, EmptyParams))
    ELSE IF c.flow.awaiting_param_to_modify
    THEN LET aliases == PARAMETER_ALIASES[c.flow.resource_type]
             input == Lower(Strip(user_message))
             param_to_modify == IF input \in DOMAIN aliases THEN aliases[input] ELSE None
         IN IF param_to_modify # None /\ param_to_modify \in DOMAIN c.flow.params
            THEN [Emit(c, Say("new_value", param_to_modify, EmptyParams))
                  EXCEPT !.flow.param_to_modify = param_to_modify,
                         !.flow.awaiting_param_to_modify = FALSE,
                         !.flow.awaiting_new_param_value = TRUE]
            ELSE Emit(c, Say("invalid_parameter", None, EmptyParams))
    ELSE IF c.flow.awaiting_new_param_value
    THEN [Emit(c, Say("parameter_updated", None, EmptyParams))
          EXCEPT !.flow.params = Put(@, c.flow.param_to_modify, Strip(user_message)),
                 !.flow.awaiting_new_param_value = FALSE,
                 !.flow.param_to_modify = None,
                 !.flow.awaiting_param_modification_decision = TRUE]
    ELSE IF user_message # None /\ Contains(Lower(user_message), "retry")
    THEN [Emit(c, Say("modify_before_retry", None, EmptyParams))
          EXCEPT !.flow.awaiting_param_modification_decision = TRUE]
    ELSE IF user_message # None /\ Contains(Lower(user_message), "cancel")
    THEN [Emit(c, Say("cancelled", None, EmptyParams))
          EXCEPT !.flow.active = FALSE, !.flow.error_occurred = FALSE]
    ELSE Emit(c, Say("retry_or_cancel", None, EmptyParams))

\* the parameter an answer is stored under (current_param_name, with its
\* fallbacks on current_param_index)
AnswerTarget(f, names, param_idx) ==
    IF f.current_param_name # None THEN f.current_param_name
    ELSE IF param_idx > 0 THEN names[param_idx]
    ELSE IF param_idx < Len(names) THEN names[param_idx + 1]
    ELSE None

\* the validators applied to an answer before it is stored
ValidationPassed(resource_type, prev_param_name, user_message) ==
    /\ (resource_type = "rds" /\ prev_param_name = "db_identifier")
           => ValidateDbIdentifier(user_message)
    /\ (resource_type = "ec2" /\ prev_param_name = "ec2_ami")
           => ValidateAmiId(user_message)
    /\ (resource_type = "ec2" /\ prev_param_name = "ec2_type")
           => ValidateInstanceType(user_message)
    /\ (resource_type = "ec2" /\ prev_param_name = "vol1_volume_type")
           => ValidateVolumeType(user_message)

\* the message that asks for params_for_resource[param_idx]
PromptNext(c, names, param_idx, env) ==
    LET name == names[param_idx + 1]
        asked == [c EXCEPT !.prompted = Append(@, name),
                           !.flow.current_param_index = param_idx + 1]
    IN IF c.flow.resource_type = "rds" /\ name = "db_engine_version"
       THEN IF /\ Truthy(Get(c.flow.params, "db_engine", None))
               /\ Truthy(Get(c.flow.params, "db_instance_class", None))
            THEN IF env.versions # <<>>
                 THEN [Emit(asked, Say("prompt_versions", name, EmptyParams))
                       EXCEPT !.flow.awaiting_version_selection = TRUE,
                              !.flow.supported_versions = env.versions]
                 ELSE Emit(asked, Say("prompt_manual_version", name, EmptyParams))
            ELSE Emit(asked, Say("prompt", name, EmptyParams))
       ELSE [Emit(asked, Say("prompt", name, EmptyParams))
             EXCEPT !.flow.current_param_name = name]

\* the same part were it to create the resource as soon as the last
\* parameter is collected, taking the preview as shown
CreateAdvanceUnconfirmed(c, names, param_idx, env) ==
    IF param_idx < Len(names)
    THEN PromptNext(c, names, param_idx, env)
    ELSE ExecuteCreateResource([c EXCEPT !.flow.preview_shown = TRUE], env.ok)

\* the part of handle_create_resource_flow after the answer, if any, was
\* stored: ask for the next parameter or show the preview
CreateAdvance(c, names, param_idx, env) ==
    IF param_idx < Len(names)
    THEN PromptNext(c, names, param_idx, env)
    ELSE ExecuteCreateResource(c, env.ok)

\* parameter collection: store the answer, then advance
CreateCollect(c, user_message, env) ==
    LET f == c.flow
        names == RESOURCE_PARAMS[f.resource_type]
        param_idx == f.current_param_index
        prev_param_name == AnswerTarget(f, names, param_idx)
        selecting == f.resource_type = "rds" /\ f.awaiting_version_selection
        n == ParseInt(Strip(user_message))
        selection == n.val - 1
    IN IF ~Truthy(user_message) THEN CreateAdvance(c, names, param_idx, env)
       ELSE IF prev_param_name = None
       THEN Emit(c, Say("no_parameter_to_update", None, EmptyParams))
       ELSE IF selecting /\ ~n.ok
       THEN [Emit(c, Say("invalid_input", None, EmptyParams))
             EXCEPT !.flow.current_param_index = param_idx - 1,
                    !.rejected = TRUE]
       ELSE IF selecting /\ ~(0 <= selection /\ selection < Len(f.supported_versions))
       THEN [Emit(c, Say("invalid_selection", None, EmptyParams))
             EXCEPT !.flow.current_param_index = param_idx - 1,
                    !.rejected = TRUE]
       ELSE LET answer == IF selecting THEN f.supported_versions[selection + 1]
                          ELSE user_message
                c1 == IF selecting
                      THEN [c EXCEPT !.flow.awaiting_version_selection = FALSE,
                                     !.flow.supported_versions = <<>>]
                      ELSE c
            IN IF ~ValidationPassed(f.resource_type, prev_param_name, answer)
               THEN [Emit(c1, Say("invalid_value", prev_param_name, EmptyParams))
                     EXCEPT !.rejected = TRUE]
               ELSE CreateAdvance(
                        [c1 EXCEPT !.flow.params = Put(@, prev_param_name, answer),
                                   !.flow.current_param_name = None],
                        names, param_idx, env)

\* handle_create_resource_flow(user_message)
HandleCreateResourceFlow(c0, user_message, env) ==
    LET names == RESOURCE_PARAMS[c0.flow.resource_type]
        c == IF c0.flow.current_param_index # NoIndex
             THEN [c0 EXCEPT !.flow.current_param_index =
                                 SkipProvided(names, c0.flow.params, @)]
             ELSE c0
    IN IF c.flow.awaiting_confirmation THEN CreateConfirmation(c, user_message, env)
       ELSE IF c.flow.awaiting_param_modification_decision
       THEN CreateParamDecision(c, user_message)
       ELSE IF c.flow.awaiting_new_param_value THEN CreateNewParamValue(c, user_message)
       ELSE IF c.flow.error_occurred THEN CreateErrorRecovery(c, user_message, env)
       ELSE CreateCollect(c, user_message, env)

\* index (0-based) of the first name of names that is in missing_params, or
\* NoIndex
RECURSIVE FirstMissingIndex(_, _, _)
FirstMissingIndex(names, missing_params, i) ==
    IF i >= Len(names) THEN NoIndex
    ELSE IF names[i + 1] \in Range(missing_params) THEN i
    ELSE FirstMissingIndex(names, missing_params, i + 1)

\* handle_enhanced_create_resource; all_params is the result of
\* extract_parameters updated with the parameters of the classification
HandleEnhancedCreateResource(c, resource_type, all_params, env) ==
    LET greeted == Emit(c, Say("can_help_create", None, EmptyParams))
        missing_params == GetMissingParameters(all_params, resource_type)
        names == RESOURCE_PARAMS[resource_type]
        current_param_index == FirstMissingIndex(names, missing_params, 0)
    IN IF missing_params # <<>>
       THEN IF current_param_index # NoIndex
            THEN HandleCreateResourceFlow(
                     StartFlow(Emit(greeted, Say("missing_parameters", None, EmptyParams)),
                               [BlankFlow EXCEPT !.active = TRUE,
                                                 !.type = "create_resource",
                                                 !.resource_type = resource_type,
                                                 !.params = all_params,
                                                 !.current_param_index = current_param_index,
                                                 !.missing_params = missing_params,
                                                 !.enhanced_flow = TRUE]),
                     None, env)
            ELSE Emit(Emit(greeted, Say("missing_parameters", None, EmptyParams)),
                      Say("cannot_determine_parameter", None, EmptyParams))
       ELSE HandleCreateResourceFlow(
                StartFlow(Emit(greeted, Say("have_all_parameters", None, EmptyParams)),
                          [BlankFlow EXCEPT !.active = TRUE,
                                            !.type = "create_resource",
                                            !.resource_type = resource_type,
                                            !.params = all_params,
                                            !.current_param_index = Len(names)]),
                None, env)

(***************************************************************************)
(* Resources as the list functions of terraform_service return them        *)
(***************************************************************************)
InstanceIds ==
    <<"i-1", "i-2", "i-3", "i-4">>

ResourceNames ==
    <<"web", "app", "db", "api">>

\* the i-th resource of a type: list_ec2 returns InstanceId and Name, the
\* other list functions the identifier of the type
ResourceAt(resource_type, i) ==
    IF resource_type = "ec2"
    THEN ("InstanceId" :> InstanceIds[i]) @@ ("Name" :> ResourceNames[i])
    ELSE (RESOURCE_IDENTIFIERS[resource_type] :> ResourceNames[i])

\* what a list function can return: a list of up to MaxResources resources,
\* or an exception (ok = FALSE)
Listings(resource_type) ==
    {[ok |-> FALSE, resources |-> <<>>]}
        \cup {[ok |-> TRUE, resources |-> [i \in 1..n |-> ResourceAt(resource_type, i)]] :
                  n \in 0..MaxResources}

\* the loop of _find_resource_by_identifier over resources from position i
RECURSIVE MatchResourceFrom(_, _, _, _)
MatchResourceFrom(user_input, resources, resource_type, i) ==
    IF i > Len(resources) THEN NoResource
    ELSE LET resource == resources[i]
             identifier_key == RESOURCE_IDENTIFIERS[resource_type]
             destroy_id_key == RESOURCE_DESTROY_IDS[resource_type]
         IN IF \/ Lower(Get(resource, identifier_key, "")) = Lower(user_input)
               \/ Lower(Get(resource, destroy_id_key, "")) = Lower(user_input)
            THEN resource
            ELSE MatchResourceFrom(user_input, resources, resource_type, i + 1)

\* _find_resource_by_identifier
\* the lookup had the name or ID match been tried before the number
FindResourceByNameFirst(user_input, resources, resource_type) ==
    LET n == ParseInt(Strip(user_input))
        selection == n.val - 1
        matched == MatchResourceFrom(user_input, resources, resource_type, 1)
    IN IF matched # NoResource THEN matched
       ELSE IF n.ok /\ 0 <= selection /\ selection < Len(resources)
       THEN resources[selection + 1]
       ELSE NoResource

FindResourceByIdentifier(user_input, resources, resource_type) ==
    LET n == ParseInt(Strip(user_input))
        selection == n.val - 1
    IN IF n.ok /\ 0 <= selection /\ selection < Len(resources)
       THEN resources[selection + 1]
       ELSE MatchResourceFrom(user_input, resources, resource_type, 1)

(***************************************************************************)
(* handle_destroy_resource_flow                                            *)
(***************************************************************************)
\* stage 1: list the resources
DestroyList(c, listing) ==
    LET resource_type == c.flow.resource_type
        resources == listing.resources
        fetched == [c EXCEPT !.listed = [fetched |-> listing.ok, resources |-> resources]]
    IN IF ~listing.ok
       THEN [Diagnose(Emit(fetched, Say("list_error", None, EmptyParams)),
                      EmptyParams)
             EXCEPT !.flow.active = FALSE]
       ELSE IF resources = <<>>
       THEN [Emit(fetched, Say("no_resources", None, EmptyParams))
             EXCEPT !.flow.active = FALSE]
       ELSE IF Len(resources) = 1
       THEN [Emit(fetched, Say("confirm_destroy_one", None, EmptyParams))
             EXCEPT !.flow.has_resources = TRUE,
                    !.flow.resources = resources,
                    !.flow.selected_resource = resources[1],
                    !.flow.awaiting_confirmation = TRUE,
                    !.picked = [by |-> "auto", resource |-> resources[1]]]
       ELSE [Emit(fetched, Say("select_resource", None, EmptyParams))
             EXCEPT !.flow.has_resources = TRUE,
                    !.flow.resources = resources,
                    !.flow.awaiting_selection = TRUE]

\* stage 2: the user selects a resource
DestroySelect(c, user_message) ==
    LET selected_resource ==
            FindResourceByIdentifier(user_message, c.flow.resources, c.flow.resource_type)
    IN IF selected_resource # NoResource
       THEN [Emit(c, Say("confirm_destroy_selected", None, EmptyParams))
             EXCEPT !.flow.selected_resource = selected_resource,
                    !.flow.awaiting_selection = FALSE,
                    !.flow.awaiting_confirmation = TRUE,
                    !.picked = [by |-> "user", resource |-> selected_resource]]
       ELSE Emit(c, Say("invalid_selection", None, EmptyParams))

\* the test were it to take every reply without "no" for a confirmation
DestroyConfirmedUnlessNo(user_message) ==
    ~Contains(Lower(user_message), "no")

\* "yes" in user_message.lower()
\* the test had 'no' taken precedence over 'yes'
DestroyConfirmedNoWins(user_message) ==
    Contains(Lower(user_message), "yes") /\ ~Contains(Lower(user_message), "no")

DestroyConfirmed(user_message) ==
    Contains(Lower(user_message), "yes")

\* stage 3: confirmation and destruction; ok: the destroy function returned
DestroyConfirm(c, user_message, ok) ==
    LET resource_type == c.flow.resource_type
        resource_id == c.flow.selected_resource[RESOURCE_DESTROY_IDS[resource_type]]
    IN IF DestroyConfirmed(user_message)
       THEN LET called == [Invoke(c, "destroy", EmptyParams, resource_id, None)
                           EXCEPT !.flow.active = FALSE]
            IN IF ok THEN Emit(called, Say("destroyed", None, EmptyParams))
               ELSE Diagnose(Emit(called, Say("destroy_error", None, EmptyParams)),
                             [resource_id |-> resource_id])
       ELSE IF Contains(Lower(user_message), "no")
       THEN [Emit(c, Say("not_destroyed", None, EmptyParams)) EXCEPT !.flow.active = FALSE]
       ELSE Emit(c, Say("yes_or_no", None, EmptyParams))

\* handle_destroy_resource_flow(user_message)
HandleDestroyResourceFlow(c, user_message, env) ==
    IF ~c.flow.has_resources THEN DestroyList(c, env.listing)
    ELSE IF c.flow.awaiting_selection THEN DestroySelect(c, user_message)
    ELSE IF c.flow.awaiting_confirmation THEN DestroyConfirm(c, user_message, env.ok)
    ELSE c

\* handle_enhanced_destroy_resource
HandleEnhancedDestroyResource(c, resource_type, env) ==
    HandleDestroyResourceFlow(
        StartFlow(Emit(c, Say("can_help_destroy", None, EmptyParams)),
                  [BlankFlow EXCEPT !.active = TRUE, !.type = "destroy_resource",
                                    !.resource_type = resource_type]),
        None, env)

(***************************************************************************)
(* The modify flow                                                         *)
(***************************************************************************)
\* _extract_current_resource_params: the parameter each resource attribute
\* that a list function returns is copied to
ATTRIBUTE_PARAMS ==
    [ec2 |-> [InstanceId |-> "instance_id"],
     s3 |-> [Name |-> "bucket_name"],
     rds |-> [DBInstanceIdentifier |-> "db_identifier"],
     dynamodb |-> [TableName |-> "table_name"],
     iam_user |-> [UserName |-> "user_name"],
     iam_role |-> [RoleName |-> "role_name"],
     iam_policy |-> [PolicyName |-> "policy_name"]]

ExtractCurrentResourceParams(resource, resource_type) ==
    LET attrs == ATTRIBUTE_PARAMS[resource_type]
        present == {a \in DOMAIN attrs : a \in DOMAIN resource}
    IN [p \in {attrs[a] : a \in present} |->
            resource[CHOOSE a \in present : attrs[a] = p]]

\* the if/elif chains of _execute_modify_resource: per resource type, the
\* parameters tested in order and the function each one selects
MODIFY_FUNCTIONS ==
    [ec2 |-> <<[param |-> "vol1_root_size", fn |-> "update_ec2_volume_size", int |-> TRUE],
               [param |-> "ec2_type", fn |-> "update_ec2_instance_type", int |-> FALSE]>>,
     s3 |-> <<>>,
     rds |-> <<[param |-> "allocated_storage", fn |-> "update_rds_storage", int |-> TRUE],
               [param |-> "db_instance_class", fn |-> "update_rds_instance_class", int |-> FALSE]>>,
     dynamodb |-> <<>>,
     iam_user |-> <<[param |-> "user_name", fn |-> "update_iam_user_name", int |-> FALSE]>>,
     iam_role |-> <<[param |-> "role_name", fn |-> "update_iam_role_name", int |-> FALSE]>>,
     iam_policy |-> <<[param |-> "policy_name", fn |-> "update_iam_policy_name", int |-> FALSE],
                      [param |-> "policy_description", fn |-> "update_iam_policy_description", int |-> FALSE],
                      [param |-> "policy_document", fn |-> "update_iam_policy_document", int |-> FALSE]>>]

\* the update functions terraform_service defines
UpdateFunctions ==
    {"update_ec2_volume_size"}

\* first branch of the chain whose parameter is in params, from position i
RECURSIVE ModifyBranch(_, _, _)
ModifyBranch(chain, params, i) ==
    IF i > Len(chain) THEN [param |-> None, fn |-> None, int |-> FALSE]
    ELSE IF chain[i].param \in DOMAIN params THEN chain[i]
    ELSE ModifyBranch(chain, params, i + 1)

\* _execute_modify_resource; ok: the update function returned
\* the modification had the flow been ended on success only
ExecuteModifyResourceNoFinally(c, ok) ==
    LET resource_type == c.flow.resource_type
        params == c.flow.params
        resource_id == c.flow.selected_resource[RESOURCE_DESTROY_IDS[resource_type]]
        branch == ModifyBranch(MODIFY_FUNCTIONS[resource_type], params, 1)
        ended == [c EXCEPT !.flow.active = FALSE]
        failed(cc) == Diagnose(Emit(cc, Say("modify_error", None, EmptyParams)), params)
    IN IF branch.param = None
       THEN Emit(ended, Say("modify_not_supported", None, EmptyParams))
       ELSE IF branch.int /\ ~ParseInt(params[branch.param]).ok
       THEN failed(c)
       ELSE IF branch.fn \notin UpdateFunctions
       THEN failed(c)
       ELSE IF ok
       THEN Emit(Invoke(ended, branch.fn, EmptyParams, resource_id, params[branch.param]),
                 Say("modified", branch.param,
                     Put(EmptyParams, branch.param, params[branch.param])))
       ELSE failed(Invoke(c, branch.fn, EmptyParams, resource_id, params[branch.param]))

ExecuteModifyResource(c, ok) ==
    LET resource_type == c.flow.resource_type
        params == c.flow.params
        resource_id == c.flow.selected_resource[RESOURCE_DESTROY_IDS[resource_type]]
        branch == ModifyBranch(MODIFY_FUNCTIONS[resource_type], params, 1)
        ended == [c EXCEPT !.flow.active = FALSE]
        failed(cc) == Diagnose(Emit(cc, Say("modify_error", None, EmptyParams)), params)
    IN IF branch.param = None
       THEN Emit(ended, Say("modify_not_supported", None, EmptyParams))
       ELSE IF branch.int /\ ~ParseInt(params[branch.param]).ok
       THEN failed(ended)
       ELSE IF branch.fn \notin UpdateFunctions
       THEN failed(ended)
       ELSE LET called == Invoke(ended, branch.fn, EmptyParams, resource_id,
                                 params[branch.param])
            IN IF ok
               THEN Emit(called, Say("modified", branch.param,
                                     Put(EmptyParams, branch.param, params[branch.param])))
               ELSE failed(called)

\* the confirmation step of handle_modify_resource_flow
ModifyConfirmation(c, user_message, env) ==
    IF IsConfirm(user_message)
    THEN ExecuteModifyResource(
             [c EXCEPT !.flow.awaiting_confirmation = FALSE, !.flow.confirmed = TRUE],
             env.ok)
    ELSE IF IsModify(user_message)
    THEN [Emit(c, Say("which_parameter", None, EmptyParams))
          EXCEPT !.flow.awaiting_confirmation = FALSE,
                 !.flow.awaiting_param_modification_decision = TRUE]
    ELSE IF IsCancel(user_message)
    THEN [Emit(c, Say("cancelled", None, EmptyParams)) EXCEPT !.flow.active = FALSE]
    ELSE Emit(c, Say("confirm_reminder", None, EmptyParams))

\* the parameter modification step of handle_modify_resource_flow
ModifyParamDecision(c, user_message) ==
    IF Lower(user_message) \in {"list", "show", "current"}
    THEN IF c.flow.params # EmptyParams
         THEN Emit(c, Say("current_parameters", None, c.flow.params))
         ELSE Emit(c, Say("no_parameters", None, EmptyParams))
    ELSE IF Lower(user_message) \in {"done", "finished", "proceed"}
    THEN ShowModifyPreview(
             [c EXCEPT !.flow.awaiting_param_modification_decision = FALSE])
    ELSE LET param_to_modify ==
                 FindParameterByInput(user_message, c.flow.resource_type, c.flow.params)
         IN IF param_to_modify # None
            THEN [Emit(c, Say("current_value", param_to_modify,
                              IF param_to_modify \in DOMAIN c.flow.params
                              THEN Put(EmptyParams, param_to_modify,
                                       c.flow.params[param_to_modify])
                              ELSE EmptyParams))
                  EXCEPT !.flow.param_to_modify = param_to_modify,
                         !.flow.awaiting_param_modification_decision = FALSE,
                         !.flow.awaiting_new_param_value = TRUE]
            ELSE Emit(c, Say("parameter_not_found", None, EmptyParams))

\* the new-value step of handle_modify_resource_flow (the statements of the
\* create flow's step)
ModifyNewParamValue(c, user_message) ==
    CreateNewParamValue(c, user_message)

\* stage 1 of handle_modify_resource_flow: list the resources
ModifyList(c, listing) ==
    LET resource_type == c.flow.resource_type
        resources == listing.resources
        fetched == [c EXCEPT !.listed = [fetched |-> listing.ok, resources |-> resources]]
    IN IF ~listing.ok
       THEN [Diagnose(Emit(fetched, Say("list_error", None, EmptyParams)),
                      EmptyParams)
             EXCEPT !.flow.active = FALSE]
       ELSE IF resources = <<>>
       THEN [Emit(fetched, Say("no_resources", None, EmptyParams))
             EXCEPT !.flow.active = FALSE]
       ELSE IF Len(resources) = 1
       THEN ShowModifyPreview(
                [fetched EXCEPT !.flow.has_resources = TRUE,
                                !.flow.resources = resources,
                                !.flow.selected_resource = resources[1],
                                !.flow.params =
                                    ExtractCurrentResourceParams(resources[1], resource_type),
                                !.picked = [by |-> "auto", resource |-> resources[1]]])
       ELSE [Emit(fetched, Say("select_resource", None, EmptyParams))
             EXCEPT !.flow.has_resources = TRUE,
                    !.flow.resources = resources,
                    !.flow.awaiting_selection = TRUE]

\* stage 2 of handle_modify_resource_flow: the user selects a resource
ModifySelect(c, user_message) ==
    LET resource_type == c.flow.resource_type
        selected_resource ==
            FindResourceByIdentifier(user_message, c.flow.resources, resource_type)
    IN IF selected_resource # NoResource
       THEN ShowModifyPreview(
                [c EXCEPT !.flow.selected_resource = selected_resource,
                          !.flow.awaiting_selection = FALSE,
                          !.flow.params =
                              ExtractCurrentResourceParams(selected_resource, resource_type),
                          !.picked = [by |-> "user", resource |-> selected_resource]])
       ELSE Emit(c, Say("invalid_selection", None, EmptyParams))

\* handle_modify_resource_flow(user_message)
HandleModifyResourceFlow(c, user_message, env) ==
    IF c.flow.awaiting_confirmation THEN ModifyConfirmation(c, user_message, env)
    ELSE IF c.flow.awaiting_param_modification_decision
    THEN ModifyParamDecision(c, user_message)
    ELSE IF c.flow.awaiting_new_param_value THEN ModifyNewParamValue(c, user_message)
    ELSE IF ~c.flow.has_resources THEN ModifyList(c, env.listing)
    ELSE IF c.flow.awaiting_selection THEN ModifySelect(c, user_message)
    ELSE [Emit(c, Say("unexpected_state", None, EmptyParams)) EXCEPT !.flow.active = FALSE]

(***************************************************************************)
(* handle_enhanced_modify_resource                                         *)
(***************************************************************************)
\* what re.search found for the first matching pattern of modify_patterns:
\* the parameter of the pattern, the groups of the match (None for a group
\* that did not take part) and match.lastindex
NoMatch ==
    [param |-> None, groups |-> <<>>, lastindex |-> 0]

ModifyMatches ==
    {NoMatch,
     [param |-> "vol1_root_size", groups |-> <<"change", "root ", "2", "gb">>, lastindex |-> 4],
     [param |-> "vol1_root_size", groups |-> <<"change", None, "2", "gb">>, lastindex |-> 4],
     [param |-> "vol1_root_size", groups |-> <<"root ", "2", "gb">>, lastindex |-> 3],
     [param |-> "vol1_root_size", groups |-> <<None, "2", "gb">>, lastindex |-> 3],
     [param |-> "vol1_volume_type", groups |-> <<"change", "root ", "gp3">>, lastindex |-> 3],
     [param |-> "vol1_volume_type", groups |-> <<None, "gp3">>, lastindex |-> 2],
     [param |-> "ec2_type", groups |-> <<"change", "t2.micro">>, lastindex |-> 2],
     [param |-> "ec2_type", groups |-> <<"t2.micro">>, lastindex |-> 1]}

\* the group the code takes as the new value
MatchedValue(match) ==
    IF match.lastindex >= 2
    THEN IF match.param = "vol1_root_size" /\ match.lastindex >= 3
         THEN match.groups[match.lastindex - 2]
         ELSE match.groups[match.lastindex - 1]
    ELSE None

MODIFIABLE_PARAMS ==
    <<"vol1_root_size", "vol1_volume_type", "ec2_type">>

\* first parameter of modifiable_params that is in all_params, from position i
RECURSIVE FirstModifiable(_, _)
FirstModifiable(all_params, i) ==
    IF i > Len(MODIFIABLE_PARAMS) THEN None
    ELSE IF MODIFIABLE_PARAMS[i] \in DOMAIN all_params THEN MODIFIABLE_PARAMS[i]
    ELSE FirstModifiable(all_params, i + 1)

\* param_to_modify and new_value as identified from the message
ModifyTarget(match, all_params) ==
    IF match.param # None
    THEN [param_to_modify |-> match.param, new_value |-> MatchedValue(match)]
    ELSE LET param == FirstModifiable(all_params, 1)
         IN [param_to_modify |-> param,
             new_value |-> IF param # None THEN all_params[param] ELSE None]

\* handle_enhanced_modify_resource, from the point where param_to_modify
\* and new_value are identified (target); ok: update_ec2_volume_size returned
HandleEnhancedModifyResource(c, resource_type, target, env) ==
    LET greeted == Emit(c, Say("can_help_modify", None, EmptyParams))
        param_to_modify == target.param_to_modify
        new_value == target.new_value
        resources == env.listing.resources
        standard(cc, f) == HandleModifyResourceFlow(StartFlow(cc, f), None,
                                                    [env EXCEPT !.listing = env.listing2])
    IN IF param_to_modify = None \/ ~Truthy(new_value)
       THEN standard(Emit(greeted, Say("need_more_information", None, EmptyParams)),
                     [BlankFlow EXCEPT !.active = TRUE, !.type = "modify_resource",
                                       !.resource_type = resource_type])
       ELSE IF ~env.listing.ok
       THEN Diagnose(Emit(greeted, Say("list_error", None, EmptyParams)), EmptyParams)
       ELSE IF resources = <<>>
       THEN Emit(greeted, Say("no_resources", None, EmptyParams))
       ELSE IF Len(resources) > 1
       THEN [StartFlow(Emit(greeted, Say("select_resource", None, EmptyParams)),
                       [BlankFlow EXCEPT !.active = TRUE, !.type = "modify_resource",
                                         !.resource_type = resource_type,
                                         !.has_resources = TRUE,
                                         !.resources = resources,
                                         !.awaiting_selection = TRUE,
                                         !.param_to_modify = param_to_modify,
                                         !.new_value = new_value])
             EXCEPT !.listed = [fetched |-> TRUE, resources |-> resources]]
       ELSE LET selected_resource == resources[1]
                instance_id == selected_resource[RESOURCE_DESTROY_IDS[resource_type]]
            IN IF param_to_modify = "vol1_root_size"
               THEN LET called == [greeted EXCEPT !.call =
                                       [fn |-> "update_ec2_volume_size",
                                        rt |-> resource_type, params |-> EmptyParams,
                                        id |-> instance_id, value |-> new_value,
                                        msg |-> c.msg]]
                    IN IF env.ok
                       THEN Emit(called, Say("modified", param_to_modify,
                                             Put(EmptyParams, param_to_modify, new_value)))
                       ELSE Diagnose(Emit(called, Say("modify_error", None, EmptyParams)),
                                     [param_to_modify |-> param_to_modify,
                                      new_value |-> new_value])
               ELSE standard(Emit(greeted, Say("not_supported_here", param_to_modify,
                                               EmptyParams)),
                             [BlankFlow EXCEPT !.active = TRUE, !.type = "modify_resource",
                                               !.resource_type = resource_type,
                                               !.selected_resource = selected_resource])

(***************************************************************************)
(* Inputs of the conversation                                              *)
(***************************************************************************)
\* a value the extractor finds in a message for each parameter
EXTRACTED_VALUE ==
    [ec2_availabilityzone |-> "us-east-1a", ec2_name |-> "web",
     ec2_ami |-> "ami-12345678", ec2_type |-> "t2.micro", vol1_root_size |-> "20",
     vol1_volume_type |-> "gp3", ec2_ebs2_data_size |-> "50",
     bucket_name |-> "web",
     db_identifier |-> "mydb", db_engine |-> "mysql", db_engine_version |-> "8.0",
     db_instance_class |-> "db.t3.micro", allocated_storage |-> "20",
     db_username |-> "admin", db_password |-> "secret",
     db_publicly_accessible |-> "no",
     table_name |-> "web", hash_key_name |-> "id", hash_key_type |-> "S",
     user_name |-> "web", role_name |-> "web",
     policy_name |-> "web", policy_description |-> "web", policy_document |-> "{}"]

\* keys of parameter_patterns[resource_type]: what the regex pass can extract
PatternParams(resource_type) ==
    IF resource_type \in PatternTypes
    THEN ParamNames(resource_type) \ {"db_publicly_accessible"}
    ELSE {}

\* the parameters a creation request can carry: all but at most MaxMissing
\* of the parameters of the type
ExtractionDomains(resource_type) ==
    {D \in SUBSET ParamNames(resource_type) :
         Cardinality(ParamNames(resource_type) \ D) <= MaxMissing}

Extracted(D) ==
    [p \in D |-> EXTRACTED_VALUE[p]]

\* get_supported_rds_engine_versions returns a list of versions, [] on error
VersionLists ==
    {<<>>, <<"8.0">>}

\* what the user types when asked for the value of a parameter: a usable
\* value or an unusable one
AnswersTo(param) ==
    IF param \in DOMAIN EXTRACTED_VALUE
    THEN {EXTRACTED_VALUE[param], Unusable}
    ELSE {Unusable}

\* what the user types when asked to pick a version by number
SelectionReplies ==
    {"1", "2", Unusable}

\* the replies to the last assistant message of a create flow
CreateReplies(f, asked) ==
    IF f.awaiting_confirmation \/ f.awaiting_param_modification_decision THEN Msgs
    ELSE IF f.awaiting_new_param_value THEN AnswersTo(f.param_to_modify)
    ELSE IF f.error_occurred THEN Msgs \cup {"cancel the retry"}
    ELSE IF asked = <<>> THEN Msgs
    ELSE IF f.awaiting_version_selection THEN SelectionReplies
    ELSE AnswersTo(asked[Len(asked)])

\* the replies to the last assistant message of a destroy flow; a reply to
\* the confirmation may hold both words
DestroyReplies(f) ==
    IF f.awaiting_confirmation THEN Msgs \cup {"YES no"} ELSE Msgs

\* the replies to the last assistant message of a modify flow
ModifyReplies(f) ==
    IF f.awaiting_confirmation \/ f.awaiting_param_modification_decision THEN Msgs
    ELSE IF f.awaiting_new_param_value THEN AnswersTo(f.param_to_modify)
    ELSE Msgs

\* only an RDS flow that still lacks the engine version calls
\* get_supported_rds_engine_versions
VersionChoices(resource_type, params) ==
    IF resource_type = "rds" /\ "db_engine_version" \notin DOMAIN params
    THEN VersionLists ELSE {<<>>}

\* confidence of the LLM pass: 0.0 with nothing extracted, else low or high
AiConfidences(ai_domain) ==
    IF ai_domain = {} THEN {0} ELSE {50, 90}

\* a create function can be invoked, and so succeed or fail, only by a
\* step taken while awaiting confirmation or recovering from an error
CreateChoices(f) ==
    IF f.awaiting_confirmation \/ f.error_occurred THEN BOOLEAN ELSE {FALSE}

\* a destroy or update function can be invoked only by a step taken while
\* awaiting confirmation
ConfirmChoices(f) ==
    IF f.awaiting_confirmation THEN BOOLEAN ELSE {FALSE}

\* what the LLM can answer to classify_intent_ai in a conversation
AiAnswers ==
    {[intent |-> "None", confidence |-> 0, params |-> EmptyParams]}
        \cup {[intent |-> i, confidence |-> 90, params |-> EmptyParams] :
                  i \in Intents \cup {"unknown"}}
        \cup {[intent |-> "create_s3", confidence |-> 90,
               params |-> [bucket_name |-> "web"]]}

\* the classifications classify_intent can return in a conversation
Classifications ==
    {ClassifyIntent(matched, ai) :
         matched \in {{}} \cup {{i} : i \in Intents}, ai \in AiAnswers}

\* the distinct classifications with a given intent
ClassifiedAs(intent) ==
    {[intent |-> cl.intent, confidence |-> cl.confidence, params |-> cl.params] :
         cl \in {x \in Classifications : x.intent = intent}}

\* the message of a request made outside a flow
RequestText ==
    "request"

\* the environment of one step: outcomes of the Terraform functions
NoEnv ==
    [ok |-> FALSE, versions |-> <<>>,
     listing |-> [ok |-> FALSE, resources |-> <<>>],
     listing2 |-> [ok |-> FALSE, resources |-> <<>>]]

(***************************************************************************)
(* execute_user_action: one action per kind of user message                *)
(***************************************************************************)
\* the step leaves the session in the state of context c
Handled(c) ==
    /\ flow' = c.flow
    /\ out' = c.out
    /\ call' = c.call
    /\ lastPreview' = c.lastPreview
    /\ prompted' = c.prompted
    /\ listed' = c.listed
    /\ picked' = c.picked
    /\ rejected' = c.rejected
    /\ llm' = c.llm
    /\ turns' = turns + 1
    /\ UNCHANGED <<gmp, xph, cls, tfa, frb>>

\* get_proactive_suggestions has advice for the intent (its tables have
\* entries for EC2 creation only)
HasSuggestions(intent) ==
    intent = "create_ec2"

\* threshold of handle_enhanced_intent_recognition (0.7)
SuggestionThreshold ==
    70

\* handle_enhanced_intent_recognition has suggestions to append
Suggests(cl) ==
    cl.confidence > SuggestionThreshold /\ HasSuggestions(cl.intent)

\* the proactive suggestions appended by handle_enhanced_intent_recognition
WithSuggestions(c, suggested) ==
    IF suggested THEN Emit(c, Say("suggestions", None, EmptyParams)) ELSE c

\* all_params of handle_enhanced_create_resource for each message: the
\* regex pass extracts the parameters of D it has patterns for, the LLM pass
\* the others, and the parameters of the classification are merged in
CreateParams(resource_type) ==
    UNION {{Update(ExtractParametersHybrid(
                       Extracted(D \cap PatternParams(resource_type)),
                       Extracted(D \ PatternParams(resource_type)),
                       ai_confidence, resource_type, DefaultInstanceTypes),
                   cl.params) :
                cl \in ClassifiedAs(CreateIntentOf[resource_type]),
                ai_confidence \in AiConfidences(D \ PatternParams(resource_type))} :
           D \in ExtractionDomains(resource_type)}

\* the creation requests: resource type, all_params, whether suggestions
\* follow, and the versions AWS would list
CreateRequests ==
    UNION {
        UNION {
            {[resource_type |-> resource_type, all_params |-> all_params,
              suggested |-> Suggests(cl), versions |-> versions] :
                 cl \in ClassifiedAs(CreateIntentOf[resource_type]),
                 versions \in VersionChoices(resource_type, all_params)} :
            all_params \in CreateParams(resource_type)} :
        resource_type \in ResourceTypes}

\* a message classified as create_<resource_type> outside a flow
RequestCreate ==
    /\ ~flow.active
    /\ turns < MaxTurns
    /\ \E r \in CreateRequests :
          Handled(WithSuggestions(
                      HandleEnhancedCreateResource(
                          Ctx(RequestText), r.resource_type, r.all_params,
                          [NoEnv EXCEPT !.versions = r.versions]),
                      r.suggested))

\* the destruction requests: resource type, classification, and what the
\* list function would return
DestroyRequests ==
    UNION {{[resource_type |-> resource_type, suggested |-> Suggests(cl),
             listing |-> listing] :
                cl \in ClassifiedAs(DestroyIntentOf[resource_type]),
                listing \in Listings(resource_type)} :
           resource_type \in ResourceTypes}

\* a message classified as destroy_<resource_type> outside a flow
RequestDestroy ==
    /\ ~flow.active
    /\ turns < MaxTurns
    /\ \E r \in DestroyRequests :
          Handled(WithSuggestions(
                      HandleEnhancedDestroyResource(
                          Ctx(RequestText), r.resource_type,
                          [NoEnv EXCEPT !.listing = r.listing]),
                      r.suggested))

\* the modification requests: param_to_modify and new_value as identified
\* from what the modify patterns matched and the parameters extracted from
\* the message
ModifyRequests ==
    {ModifyTarget(match,
                  Update(ExtractParametersHybrid(Extracted(D), EmptyParams, 0, "ec2",
                                                 DefaultInstanceTypes),
                         cl.params)) :
         cl \in ClassifiedAs("modify_ec2"), match \in ModifyMatches,
         D \in {{}, {"vol1_root_size"}, {"vol1_volume_type"}}}

\* a message classified as modify_ec2 outside a flow; the outcomes drawn
\* are those of the Terraform functions the handler reaches
RequestModify ==
    /\ ~flow.active
    /\ turns < MaxTurns
    /\ \E target \in ModifyRequests :
          LET undetermined == target.param_to_modify = None \/ ~Truthy(target.new_value)
              direct == target.param_to_modify = "vol1_root_size"
          IN \E listing \in IF undetermined THEN {NoEnv.listing} ELSE Listings("ec2") :
             \E listing2 \in IF undetermined \/ (Len(listing.resources) = 1 /\ ~direct)
                             THEN Listings("ec2") ELSE {NoEnv.listing},
                ok \in IF ~undetermined /\ Len(listing.resources) = 1 /\ direct
                       THEN BOOLEAN ELSE {FALSE} :
                Handled(HandleEnhancedModifyResource(
                            Ctx(RequestText), "ec2", target,
                            [NoEnv EXCEPT !.listing = listing, !.listing2 = listing2,
                                          !.ok = ok]))

\* the classifications that start no flow
OtherClassifications ==
    {cl \in Classifications :
         cl.intent \notin {CreateIntentOf[rt] : rt \in ResourceTypes}
                              \cup {DestroyIntentOf[rt] : rt \in ResourceTypes}
                              \cup {"modify_ec2"}}

\* any other message outside a flow: listing, help, cost estimation or a
\* general answer; the flow is not touched
RequestOther ==
    /\ ~flow.active
    /\ turns < MaxTurns
    /\ OtherClassifications # {}
    /\ Handled(Emit(Ctx(RequestText), Say("answer", None, EmptyParams)))

\* the message user_message while a create flow is active
CreateFlowReply(user_message) ==
    /\ flow.active
    /\ flow.type = "create_resource"
    /\ turns < MaxTurns
    /\ \E ok \in CreateChoices(flow),
          versions \in VersionChoices(flow.resource_type, flow.params) :
        Handled(HandleCreateResourceFlow(
                    Ctx(user_message), user_message,
                    [NoEnv EXCEPT !.ok = ok, !.versions = versions]))

\* a message while a create flow is active
CreateFlowMessage ==
    \E user_message \in CreateReplies(flow, prompted) : CreateFlowReply(user_message)

\* the message user_message while a destroy flow is active
DestroyFlowReply(user_message) ==
    /\ flow.active
    /\ flow.type = "destroy_resource"
    /\ turns < MaxTurns
    /\ \E ok \in ConfirmChoices(flow) :
        Handled(HandleDestroyResourceFlow(Ctx(user_message), user_message,
                                          [NoEnv EXCEPT !.ok = ok]))

\* a message while a destroy flow is active
DestroyFlowMessage ==
    \E user_message \in DestroyReplies(flow) : DestroyFlowReply(user_message)

\* the message user_message while a modify flow is active, in a session
\* of at most limit messages
ModifyFlowReply(user_message, limit) ==
    /\ flow.active
    /\ flow.type = "modify_resource"
    /\ turns < limit
    /\ \E ok \in ConfirmChoices(flow) :
        Handled(HandleModifyResourceFlow(Ctx(user_message), user_message,
                                         [NoEnv EXCEPT !.ok = ok]))

\* a message while a modify flow is active
ModifyFlowMessage ==
    \E user_message \in ModifyReplies(flow) : ModifyFlowReply(user_message, MaxTurns)

Init ==
    /\ flow = BlankFlow
    /\ turns = 0
    /\ out = <<>>
    /\ call = NoCall
    /\ lastPreview = NoPreview
    /\ prompted = <<>>
    /\ listed = NoListing
    /\ picked = NoPick
    /\ rejected = FALSE
    /\ llm = <<>>
    /\ frb = FrbIdle
    /\ gmp = GmpIdle
    /\ xph = XphIdle
    /\ cls = ClsIdle
    /\ tfa = TfaIdle

Next ==
    \/ RequestCreate
    \/ RequestDestroy
    \/ RequestModify
    \/ RequestOther
    \/ CreateFlowMessage
    \/ DestroyFlowMessage
    \/ ModifyFlowMessage

Spec ==
    Init /\ [][Next]_vars

(***************************************************************************)
(* get_missing_parameters on its own: every resource type, every map over  *)
(* parameters of the type with a value or an empty string                  *)
(***************************************************************************)
\* how a request can treat a parameter: leave it out, give it a usable value
\* or give it an empty one
Supplies ==
    {"absent", "value", "empty"}

\* the parameter map of a request that treats each parameter as supply says
SuppliedParams(supply) ==
    [p \in {q \in DOMAIN supply : supply[q] # "absent"} |->
         IF supply[p] = "value" THEN EXTRACTED_VALUE[p] ELSE ""]

\* the arguments of one call of get_missing_parameters
GmpInputs ==
    UNION {{[pc |-> "ready", resource_type |-> resource_type,
             extracted |-> SuppliedParams(supply), missing |-> <<>>] :
                supply \in [ParamNames(resource_type) -> Supplies]} :
           resource_type \in ResourceTypes}

InitMissing ==
    /\ flow = BlankFlow
    /\ turns = 0
    /\ out = <<>>
    /\ call = NoCall
    /\ lastPreview = NoPreview
    /\ prompted = <<>>
    /\ listed = NoListing
    /\ picked = NoPick
    /\ rejected = FALSE
    /\ llm = <<>>
    /\ frb = FrbIdle
    /\ gmp \in GmpInputs
    /\ xph = XphIdle
    /\ cls = ClsIdle
    /\ tfa = TfaIdle

\* get_missing_parameters(extracted_params, resource_type) returns
GmpRun ==
    /\ gmp.pc = "ready"
    /\ gmp' = [gmp EXCEPT !.pc = "done",
                          !.missing = GetMissingParameters(gmp.extracted, gmp.resource_type)]
    /\ UNCHANGED <<flowVars, xph, cls, tfa, frb>>

NextMissing ==
    GmpRun

SpecMissing ==
    InitMissing /\ [][NextMissing]_vars

\* the required list of a resource type ([] for a type the extractor has no
\* patterns for)
RequiredOf(resource_type) ==
    IF resource_type \in PatternTypes THEN REQUIRED_MAPPING[resource_type] ELSE <<>>

\* position of a parameter in a list of distinct parameters
PositionIn(list, param) ==
    CHOOSE i \in 1..Len(list) : list[i] = param

\* the listed parameters that the extracted map does not supply at all
NotSupplied(listed_params, extracted) ==
    {p \in listed_params : p \notin DOMAIN extracted}

\* C6: get_missing_parameters(extracted, type) returns exactly the required
\* parameters of the type that are absent from extracted or have an empty
\* value, each once and in required-list order; for ec2 the result holds
\* vol1_volume_type and ec2_availabilityzone whenever the request did not
\* supply them, and for rds it holds allocated_storage, db_instance_class,
\* db_engine_version, db_username and db_password whenever they were not
\* supplied.
C6_MissingExactlyRequiredInOrder ==
    gmp.pc = "done" =>
        LET required == RequiredOf(gmp.resource_type)
            missing == gmp.missing
        IN /\ Range(missing) =
                  {p \in Range(required) :
                       p \notin DOMAIN gmp.extracted \/ gmp.extracted[p] = ""}
           /\ \A i, j \in 1..Len(missing) :
                  i < j => PositionIn(required, missing[i]) < PositionIn(required, missing[j])
           /\ gmp.resource_type = "ec2" =>
                  NotSupplied({"vol1_volume_type", "ec2_availabilityzone"}, gmp.extracted)
                      \subseteq Range(missing)
           /\ gmp.resource_type = "rds" =>
                  NotSupplied({"allocated_storage", "db_instance_class",
                               "db_engine_version", "db_username", "db_password"},
                              gmp.extracted)
                      \subseteq Range(missing)

\* an rds request that supplies some required parameters, leaves some out
\* and gives an empty value for another, with the missing list computed
C6_Witness ==
    /\ gmp.pc = "done"
    /\ gmp.resource_type = "rds"
    /\ "db_identifier" \in DOMAIN gmp.extracted
    /\ gmp.extracted["db_identifier"] # ""
    /\ "db_engine" \in DOMAIN gmp.extracted
    /\ gmp.extracted["db_engine"] = ""
    /\ "db_password" \notin DOMAIN gmp.extracted
    /\ Len(gmp.missing) >= 3

(***************************************************************************)
(* extract_parameters on its own                                           *)
(***************************************************************************)
\* values the LLM pass can report: the one in the message, or a shorthand
\* that _apply_intelligent_mappings rewrites
AiValue ==
    [p \in DOMAIN EXTRACTED_VALUE |->
         CASE p = "ec2_type" -> "small"
           [] p = "vol1_volume_type" -> "ssd"
           [] OTHER -> EXTRACTED_VALUE[p]]

\* profile.common_instance_types as a stored profile can hold it
InstanceTypeHistories ==
    {<<>>, DefaultInstanceTypes}

\* what extract_parameters_ai can return: nothing with confidence 0.0, or
\* one parameter of the type with a low or a high confidence
AiReports(resource_type) ==
    UNION {{[params |-> [p \in A |-> AiValue[p]], confidence |-> ai_confidence] :
                ai_confidence \in AiConfidences(A)} :
           A \in {{}} \cup {{p} : p \in ParamNames(resource_type)}}

\* the results of the two passes of one call of extract_parameters: the
\* regex pass reports parameters it has patterns for
XphInputs ==
    UNION {{[pc |-> "ready", resource_type |-> resource_type,
             regex_params |-> Extracted(R),
             ai_params |-> ai.params,
             ai_confidence |-> ai.confidence,
             common_instance_types |-> common_instance_types,
             result |-> EmptyParams] :
                R \in SUBSET PatternParams(resource_type),
                ai \in AiReports(resource_type),
                common_instance_types \in InstanceTypeHistories} :
           resource_type \in ResourceTypes}

InitExtract ==
    /\ flow = BlankFlow
    /\ turns = 0
    /\ out = <<>>
    /\ call = NoCall
    /\ lastPreview = NoPreview
    /\ prompted = <<>>
    /\ listed = NoListing
    /\ picked = NoPick
    /\ rejected = FALSE
    /\ llm = <<>>
    /\ frb = FrbIdle
    /\ gmp = GmpIdle
    /\ xph \in XphInputs
    /\ cls = ClsIdle
    /\ tfa = TfaIdle

\* extract_parameters(message, resource_type, context, user_id) returns
XphRun ==
    /\ xph.pc = "ready"
    /\ xph' = [xph EXCEPT !.pc = "done",
                          !.result = ExtractParametersHybrid(
                                         xph.regex_params, xph.ai_params,
                                         xph.ai_confidence, xph.resource_type,
                                         xph.common_instance_types)]
    /\ UNCHANGED <<flowVars, gmp, cls, tfa, frb>>

NextExtract ==
    XphRun

SpecExtract ==
    InitExtract /\ [][NextExtract]_vars

\* C5: extract_parameters applies no defaults for required parameters: a
\* required parameter that neither the regex pass nor the LLM pass extracted
\* from the message is absent from the returned parameters.
C5_NoDefaultForRequired ==
    xph.pc = "done" =>
        \A p \in Range(RequiredOf(xph.resource_type)) :
            (p \notin DOMAIN xph.regex_params /\ p \notin DOMAIN xph.ai_params)
                => p \notin DOMAIN xph.result

\* the case C5 is about: an ec2 request from which nothing was extracted
C5_Witness ==
    /\ xph.pc = "done"
    /\ xph.resource_type = "ec2"
    /\ xph.regex_params = EmptyParams
    /\ xph.ai_params = EmptyParams
    /\ xph.common_instance_types = DefaultInstanceTypes

(***************************************************************************)
(* classify_intent on its own                                              *)
(***************************************************************************)
\* the sets of intents whose patterns a message can match: none, one, or
\* two at once ("create an ec2 instance and check status")
MatchSets ==
    {{}} \cup {{a, b} : a, b \in Intents}

\* what the LLM would answer to classify_intent_ai for a message
AiOpinions ==
    {[intent |-> "None", confidence |-> 0, params |-> EmptyParams],
     [intent |-> "unknown", confidence |-> 0, params |-> EmptyParams],
     [intent |-> "help", confidence |-> 50, params |-> EmptyParams],
     [intent |-> "destroy_s3", confidence |-> 95, params |-> [bucket_name |-> "web"]]}

InitIntent ==
    /\ flow = BlankFlow
    /\ turns = 0
    /\ out = <<>>
    /\ call = NoCall
    /\ lastPreview = NoPreview
    /\ prompted = <<>>
    /\ listed = NoListing
    /\ picked = NoPick
    /\ rejected = FALSE
    /\ llm = <<>>
    /\ frb = FrbIdle
    /\ gmp = GmpIdle
    /\ xph = XphIdle
    /\ cls \in {[ClsIdle EXCEPT !.pc = "start", !.matched = matched, !.ai = ai] :
                    matched \in MatchSets, ai \in AiOpinions}
    /\ tfa = TfaIdle

\* regex_intent, regex_confidence = self.classify_intent_regex(message)
ClsRegex ==
    /\ cls.pc = "start"
    /\ cls' = [cls EXCEPT !.pc = "regex", !.regex = ClassifyIntentRegex(cls.matched)]
    /\ UNCHANGED <<flowVars, gmp, xph, tfa, frb>>

\* if regex_confidence >= 0.8: return regex_intent, regex_confidence, {}
ClsReturnRegex ==
    /\ cls.pc = "regex"
    /\ HybridUsesRegex(cls.regex.confidence)
    /\ cls' = [cls EXCEPT !.pc = "done",
                          !.result = [intent |-> cls.regex.intent,
                                      confidence |-> cls.regex.confidence,
                                      params |-> EmptyParams]]
    /\ UNCHANGED <<flowVars, gmp, xph, tfa, frb>>

\* otherwise classify_intent_ai is called and the two results are weighed
ClsConsultAi ==
    /\ cls.pc = "regex"
    /\ ~HybridUsesRegex(cls.regex.confidence)
    /\ cls' = [cls EXCEPT !.pc = "done", !.ai_called = TRUE,
                          !.result = HybridWithAi(cls.regex, cls.ai)]
    /\ UNCHANGED <<flowVars, gmp, xph, tfa, frb>>

NextIntent ==
    \/ ClsRegex
    \/ ClsReturnRegex
    \/ ClsConsultAi

SpecIntent ==
    InitIntent /\ [][NextIntent]_vars

\* C8: classify_intent consults the LLM only when no regex intent pattern
\* matches the message; when some pattern matches, the result is the first
\* matching intent in pattern-table order, with confidence 0.8 and an empty
\* parameter map, whatever the LLM would have answered.
C8_RegexFirstLlmOnlyWithoutMatch ==
    /\ cls.ai_called => cls.matched = {}
    /\ (cls.pc = "done" /\ cls.matched # {}) =>
           /\ \E i \in 1..Len(INTENT_ORDER) :
                  /\ cls.result.intent = INTENT_ORDER[i]
                  /\ INTENT_ORDER[i] \in cls.matched
                  /\ \A j \in 1..(i - 1) : INTENT_ORDER[j] \notin cls.matched
           /\ cls.result.confidence = 80
           /\ cls.result.params = EmptyParams

\* a message matching two intents, classified while the LLM would have
\* answered a third intent with a higher confidence and parameters
C8_Witness ==
    /\ cls.pc = "done"
    /\ cls.matched = {"status", "create_ec2"}
    /\ cls.ai.confidence > 80
    /\ cls.ai.params # EmptyParams
    /\ cls.result.intent = "create_ec2"

(***************************************************************************)
(* terraform_service._run_terraform_apply on its own                       *)
(***************************************************************************)
\* return codes of a terraform command
ReturnCodes ==
    {0, 1}

\* names of Terraform outputs
OutputNames ==
    {"instance_id", "public_ip"}

\* one entry of the JSON object printed by 'terraform output -json': with
\* its "value" key, or without it
OutputEntries ==
    {[value |-> "v1", type |-> "string"], [type |-> "string"]}

\* what 'terraform output -json' can print: nothing, white space, text that
\* is no JSON, a JSON array, or a JSON object of entries
Stdouts ==
    {[kind |-> k, doc |-> EmptyParams] : k \in {"empty", "blank", "garbage", "array"}}
        \cup UNION {{[kind |-> "object", doc |-> doc] : doc \in [D -> OutputEntries]} :
                    D \in SUBSET OutputNames}

\* the test were it to take only a negative code for a failure
StepFailedNegative(return_code) ==
    return_code < 0

\* return_code != 0
StepFailed(return_code) ==
    return_code # 0

InitTf ==
    /\ flow = BlankFlow
    /\ turns = 0
    /\ out = <<>>
    /\ call = NoCall
    /\ lastPreview = NoPreview
    /\ prompted = <<>>
    /\ listed = NoListing
    /\ picked = NoPick
    /\ rejected = FALSE
    /\ llm = <<>>
    /\ frb = FrbIdle
    /\ gmp = GmpIdle
    /\ xph = XphIdle
    /\ cls = ClsIdle
    /\ tfa \in {[TfaIdle EXCEPT !.pc = "init", !.init_rc = init_rc,
                                !.apply_rc = apply_rc, !.output_rc = output_rc,
                                !.stdout = stdout] :
                    init_rc \in ReturnCodes, apply_rc \in ReturnCodes,
                    output_rc \in ReturnCodes, stdout \in Stdouts}

\* terraform.init(), and the raise when it fails
TfInit ==
    /\ tfa.pc = "init"
    /\ tfa' = [tfa EXCEPT !.steps = Append(@, "init"),
                          !.pc = IF StepFailed(tfa.init_rc) THEN "raised" ELSE "apply"]
    /\ UNCHANGED <<flowVars, gmp, xph, cls, frb>>

\* terraform.apply(...), and the raise when it fails
TfApply ==
    /\ tfa.pc = "apply"
    /\ tfa' = [tfa EXCEPT !.steps = Append(@, "apply"),
                          !.pc = IF StepFailed(tfa.apply_rc) THEN "raised" ELSE "output"]
    /\ UNCHANGED <<flowVars, gmp, xph, cls, frb>>

\* the try block: subprocess.run(["terraform", "output", "-json"],
\* check=True), the empty-output test, json.loads and the comprehension
\* over the parsed object; every exception is raised again
TfOutput ==
    /\ tfa.pc = "output"
    /\ LET doc == tfa.stdout.doc
           raised ==
               IF StepFailed(tfa.output_rc) THEN "CalledProcessError"
               ELSE IF tfa.stdout.kind \in {"empty", "blank"} THEN "Exception"
               ELSE IF tfa.stdout.kind = "garbage" THEN "JSONDecodeError"
               ELSE IF tfa.stdout.kind = "array" THEN "AttributeError"
               ELSE IF \E key \in DOMAIN doc : "value" \notin DOMAIN doc[key]
               THEN "KeyError"
               ELSE "nothing"
           returns == raised = "nothing"
       IN tfa' = [tfa EXCEPT !.steps = Append(@, "output"),
                             !.pc = IF returns THEN "returned" ELSE "raised",
                             !.result = IF returns
                                        THEN [key \in DOMAIN doc |-> doc[key].value]
                                        ELSE EmptyParams]
    /\ UNCHANGED <<flowVars, gmp, xph, cls, frb>>

NextTf ==
    \/ TfInit
    \/ TfApply
    \/ TfOutput

SpecTf ==
    InitTf /\ [][NextTf]_vars

\* C9: _run_terraform_apply runs terraform init, then apply, then
\* 'output -json', in that order; it raises at the first step that fails
\* and runs no later step; it returns the map from output name to output
\* value only when all three steps succeeded and the output was non-empty,
\* parseable JSON.
C9_StepsInOrderRaiseAtFirstFailure ==
    LET order == <<"init", "apply", "output">>
        codes == <<tfa.init_rc, tfa.apply_rc, tfa.output_rc>>
        n == Len(tfa.steps)
    IN /\ n <= 3
       /\ \A i \in 1..n : tfa.steps[i] = order[i]
       /\ \A i \in 1..n : \A j \in 1..(i - 1) : codes[j] = 0
       /\ (n >= 1 /\ codes[n] # 0) => tfa.pc = "raised"
       /\ tfa.pc = "returned" =>
              /\ tfa.steps = order
              /\ \A i \in 1..3 : codes[i] = 0
              /\ tfa.stdout.kind \notin {"empty", "blank", "garbage"}
              /\ DOMAIN tfa.result = DOMAIN tfa.stdout.doc
              /\ \A key \in DOMAIN tfa.result :
                     tfa.result[key] = tfa.stdout.doc[key].value

\* a run whose three steps succeeded and that returned two outputs
C9_Witness ==
    /\ tfa.pc = "returned"
    /\ tfa.steps = <<"init", "apply", "output">>
    /\ DOMAIN tfa.result = OutputNames

(***************************************************************************)
(* Properties of the conversation flows                                    *)
(***************************************************************************)
\* the replies the confirmation steps take for an approval, lower-cased
ConfirmWords ==
    {"yes", "y", "confirm", "proceed"}

\* C1: in a create flow the Terraform create function is invoked only after
\* a resource preview has been shown and the user has then replied 'yes',
\* 'y', 'confirm' or 'proceed' while the flow was awaiting confirmation, and
\* the parameters passed to it are exactly those of the most recent preview.
C1_CreateOnlyAfterPreviewAndConfirmation ==
    [][call'.fn = "create" =>
           /\ flow.active
           /\ flow.type = "create_resource"
           /\ flow.awaiting_confirmation
           /\ lastPreview.kind = "create"
           /\ Lower(call'.msg) \in ConfirmWords
           /\ call'.params = lastPreview.params]_vars

\* a bucket was created from parameters changed after the first preview
\* and shown again in a second one
C1_Witness ==
    /\ call.fn = "create"
    /\ call.rt = "s3"
    /\ call.params = lastPreview.params
    /\ call.params # Extracted({"bucket_name"})
    /\ \E i \in 1..Len(out) : out[i].kind = "created"

\* C2: in a destroy flow a Terraform destroy function is invoked only after
\* the resource list was fetched, one resource of that list was selected
\* (automatically when the list has exactly one element, otherwise by the
\* user), and the user then sent a reply containing 'yes' while the flow was
\* awaiting confirmation; the identifier passed is the selected resource's.
C2_DestroyOnlyAfterListSelectConfirm ==
    [][call'.fn = "destroy" =>
           /\ flow.active
           /\ flow.type = "destroy_resource"
           /\ flow.awaiting_confirmation
           /\ listed.fetched
           /\ \E i \in 1..Len(listed.resources) : listed.resources[i] = picked.resource
           /\ picked.by = IF Len(listed.resources) = 1 THEN "auto" ELSE "user"
           /\ Contains(Lower(call'.msg), "yes")
           /\ call'.id = picked.resource[RESOURCE_DESTROY_IDS[flow.resource_type]]]_vars

\* the second of two listed instances was selected by the user and destroyed
C2_Witness ==
    /\ call.fn = "destroy"
    /\ call.rt = "ec2"
    /\ Len(listed.resources) = 2
    /\ picked.by = "user"
    /\ call.id = InstanceIds[2]

\* C3: every terraform_service.update_* call made for a modify request is
\* preceded, in the same flow, by a modification preview and an affirmative
\* confirmation ('yes', 'y', 'confirm' or 'proceed') from the user.
C3_UpdateOnlyAfterPreviewAndConfirmation ==
    [][call'.fn \in UpdateFunctions =>
           /\ flow.active
           /\ flow.type = "modify_resource"
           /\ flow.awaiting_confirmation
           /\ lastPreview.kind = "modify"
           /\ Lower(call'.msg) \in ConfirmWords]_vars

\* an update call made by the modify flow after its preview was confirmed
C3_Witness ==
    /\ call.fn \in UpdateFunctions
    /\ flow.type = "modify_resource"
    /\ flow.confirmed
    /\ lastPreview.kind = "modify"

\* C4: whenever the create function is invoked by a create flow, flow params
\* holds a value for every parameter listed in RESOURCE_PARAMS for the
\* resource type.
C4_CreateCalledWithEveryParameter ==
    call.fn = "create" =>
        \A p \in ParamNames(call.rt) : p \in DOMAIN call.params

\* a create call that does carry every parameter of its type
C4_Witness ==
    /\ call.fn = "create"
    /\ call.rt = "rds"
    /\ DOMAIN call.params = ParamNames("rds")

\* the flow is a create flow collecting parameters
Collecting(f) ==
    /\ f.active
    /\ f.type = "create_resource"
    /\ ~f.awaiting_confirmation
    /\ ~f.awaiting_param_modification_decision
    /\ ~f.awaiting_new_param_value
    /\ ~f.error_occurred

\* the messages that ask for the value of a parameter
PromptKinds ==
    {"prompt", "prompt_versions", "prompt_manual_version"}

\* C7: during parameter collection in a create flow, prompts are issued in
\* RESOURCE_PARAMS order; a parameter already present in flow params is never
\* prompted for; and when no answer fails validation no parameter is prompted
\* for more than once.
C7_PromptsInOrderOnlyForAbsent ==
    flow.type = "create_resource" =>
        LET names == RESOURCE_PARAMS[flow.resource_type]
        IN /\ \A i \in 1..Len(prompted) : prompted[i] \in Range(names)
           /\ \A i, j \in 1..Len(prompted) :
                  i < j => PositionIn(names, prompted[i]) <= PositionIn(names, prompted[j])
           /\ flow.active =>
                  \A i \in 1..Len(out) :
                      out[i].kind \in PromptKinds => out[i].param \notin DOMAIN flow.params
           /\ ~rejected =>
                  \A i, j \in 1..Len(prompted) : i < j => prompted[i] # prompted[j]

\* two prompts of one flow, with no answer rejected, between which a
\* parameter extracted from the request was skipped
C7_Witness ==
    /\ Collecting(flow)
    /\ ~rejected
    /\ Len(prompted) = 2
    /\ LET names == RESOURCE_PARAMS[flow.resource_type]
       IN PositionIn(names, prompted[2]) > PositionIn(names, prompted[1]) + 1

\* C10: in a create flow each answer given during parameter collection is
\* stored under the name of the parameter whose prompt was shown most
\* recently, and no other entry of flow params is changed by that answer.
C10_AnswerStoredUnderPromptedParameter ==
    [][(Collecting(flow) /\ flow'.params # flow.params) =>
           /\ prompted # <<>>
           /\ LET asked == prompted[Len(prompted)]
              IN /\ asked \in DOMAIN flow'.params
                 /\ flow'.params = Put(flow.params, asked, flow'.params[asked])]_vars

\* an answer to an ordinary prompt, stored under the prompted parameter
\* while a later parameter of the type had been extracted from the request
C10_Witness ==
    /\ flow.type = "create_resource"
    /\ flow.resource_type = "ec2"
    /\ Len(prompted) = 1
    /\ prompted[1] = "ec2_ami"
    /\ "ec2_ami" \in DOMAIN flow.params
    /\ flow.awaiting_confirmation

\* C11: whenever the create function is invoked, the values of ec2_ami,
\* ec2_type and vol1_volume_type (for ec2) and of db_identifier (for rds)
\* that it is given satisfy their validators, whichever way they entered
\* flow params.
C11_CreateParamsSatisfyValidators ==
    call.fn = "create" =>
        LET valid(p, ok) == p \in DOMAIN call.params => ok
        IN /\ call.rt = "ec2" =>
                  /\ valid("ec2_ami", ValidateAmiId(call.params["ec2_ami"]))
                  /\ valid("ec2_type", ValidateInstanceType(call.params["ec2_type"]))
                  /\ valid("vol1_volume_type",
                           ValidateVolumeType(call.params["vol1_volume_type"]))
           /\ call.rt = "rds" =>
                  valid("db_identifier", ValidateDbIdentifier(call.params["db_identifier"]))

\* an instance created with an AMI, a type and a volume type that are valid
C11_Witness ==
    /\ call.fn = "create"
    /\ call.rt = "ec2"
    /\ {"ec2_ami", "ec2_type", "vol1_volume_type"} \subseteq DOMAIN call.params
    /\ ValidateAmiId(call.params["ec2_ami"])
    /\ ValidateInstanceType(call.params["ec2_type"])
    /\ ValidateVolumeType(call.params["vol1_volume_type"])

\* the last assistant message of the last step is of this kind
Asked(kind) ==
    out # <<>> /\ out[Len(out)].kind = kind

\* C12: after a failed creation and the reply 'retry', the reply 'no' to
\* "Would you like to modify any parameters before retrying? (yes/no)"
\* invokes the create function again with the same parameters.
C12_RetryThenNoCreatesAgain ==
    [][(/\ flow.error_occurred
        /\ Asked("modify_before_retry")
        /\ CreateFlowReply("no"))
       => (call'.fn = "create" /\ call'.rt = flow.resource_type
                               /\ call'.params = flow.params)]_vars

\* the question was asked after a failed creation
C12_Witness ==
    /\ flow.active /\ flow.type = "create_resource"
    /\ flow.error_occurred
    /\ flow.awaiting_param_modification_decision
    /\ Asked("modify_before_retry")
    /\ turns < MaxTurns

\* C13: in the create and the modify flow, once a parameter was changed in
\* the modify-parameter step and the assistant asked "Would you like to
\* modify another parameter? (yes/no)", the reply 'no' returns to the
\* preview and its confirmation, and the reply 'yes' asks which parameter
\* to change.
C13_AnotherParameterYesNo ==
    [][(/\ flow.active
        /\ flow.awaiting_param_modification_decision
        /\ Asked("parameter_updated"))
       => /\ (CreateFlowReply("no") \/ ModifyFlowReply("no", MaxTurns))
             => /\ flow'.awaiting_confirmation
                /\ \E i \in 1..Len(out') : out'[i].kind \in {"preview", "modify_preview"}
          /\ (CreateFlowReply("yes") \/ ModifyFlowReply("yes", MaxTurns))
             => /\ flow'.active
                /\ \E i \in 1..Len(out') : out'[i].kind = "which_parameter"]_vars

\* a parameter of a create flow was changed and the question was asked
C13_Witness ==
    /\ flow.active /\ flow.type = "create_resource"
    /\ flow.awaiting_param_modification_decision
    /\ Asked("parameter_updated")
    /\ out[Len(out)].param \in DOMAIN flow.params
    /\ turns < MaxTurns

\* C14: when a modify request names a parameter and its new value and there
\* are several resources, then once the user has selected one the requested
\* parameter with the new value is part of the previewed proposed changes
\* and, on confirmation, is applied to the selected resource.
C14_RequestedChangeSurvivesSelection ==
    [][(/\ flow.active /\ flow.type = "modify_resource"
        /\ flow.param_to_modify # None /\ flow.new_value # None)
       => /\ (/\ flow.awaiting_selection
              /\ \E m \in Msgs : ModifyFlowReply(m, MaxTurns)
              /\ ~flow'.awaiting_selection)
             => \E i \in 1..Len(out') :
                    /\ out'[i].kind = "modify_preview"
                    /\ flow.param_to_modify \in DOMAIN out'[i].shown
                    /\ out'[i].shown[flow.param_to_modify] = flow.new_value
          /\ (/\ flow.awaiting_confirmation
              /\ flow.param_to_modify = "vol1_root_size"
              /\ ModifyFlowReply("yes", MaxTurns))
             => /\ call'.fn = "update_ec2_volume_size"
                /\ call'.id = flow.selected_resource[RESOURCE_DESTROY_IDS[flow.resource_type]]
                /\ call'.value = flow.new_value]_vars

\* a request that named the parameter and the value waits for the selection
C14_Witness ==
    /\ flow.active /\ flow.type = "modify_resource"
    /\ flow.awaiting_selection
    /\ Len(flow.resources) > 1
    /\ flow.param_to_modify = "vol1_root_size" /\ flow.new_value # None
    /\ turns < MaxTurns

(***************************************************************************)
(* Modify dialogues long enough to change two parameters before the        *)
(* confirmation: preview, 'modify', parameter, value, parameter, value,    *)
(* 'done', 'yes'.                                                          *)
(***************************************************************************)
MaxModifyTurns ==
    8

\* the replies of ModifyReplies and, where a parameter is to be named, the
\* alias of ec2_type
ModifyDialogueReplies(f) ==
    ModifyReplies(f) \cup
        (IF f.awaiting_param_modification_decision THEN {"type"} ELSE {})

ModifyDialogue ==
    \E user_message \in ModifyDialogueReplies(flow) :
        ModifyFlowReply(user_message, MaxModifyTurns)

NextModify ==
    \/ RequestModify
    \/ ModifyDialogue

SpecModify ==
    Init /\ [][NextModify]_vars

\* C15: on confirming a modify preview every supported changed parameter is
\* applied: when the proposed changes contain both vol1_root_size and
\* ec2_type (for rds, allocated_storage and db_instance_class) and no
\* update fails, both updates are performed.
C15_EveryChangedParameterApplied ==
    [][(/\ flow.active /\ flow.type = "modify_resource"
        /\ flow.awaiting_confirmation
        /\ \E chain \in {MODIFY_FUNCTIONS["ec2"], MODIFY_FUNCTIONS["rds"]} :
               {chain[1].param, chain[2].param} \subseteq DOMAIN flow.params
        /\ ModifyFlowReply("yes", MaxModifyTurns)
        /\ \A i \in 1..Len(out') : out'[i].kind # "modify_error")
       => \A p \in {b.param : b \in {MODIFY_FUNCTIONS[flow.resource_type][j] :
                                       j \in 1..2}} :
              \E i \in 1..Len(out') :
                  out'[i].kind = "modified" /\ out'[i].param = p]_vars

\* a preview whose proposed changes hold both a root volume size and an
\* instance type awaits its confirmation
C15_Witness ==
    /\ flow.active /\ flow.type = "modify_resource"
    /\ flow.awaiting_confirmation
    /\ {"vol1_root_size", "ec2_type"} \subseteq DOMAIN flow.params
    /\ ParseInt(flow.params["vol1_root_size"]).ok
    /\ turns < MaxModifyTurns

\* C16: the value of db_password never appears in an assistant message of a
\* create flow: wherever a message shows the parameter (the preview, the
\* listing of the current parameters, the current value, the 'Parameter
\* updated' acknowledgement) it shows the mask.
C16_PasswordNeverShown ==
    flow.type = "create_resource" =>
        \A i \in 1..Len(out) :
            "db_password" \in DOMAIN out[i].shown =>
                out[i].shown["db_password"] = Masked

\* a preview of an RDS create flow that holds a password shows it masked
C16_Witness ==
    /\ flow.active /\ flow.type = "create_resource"
    /\ "db_password" \in DOMAIN flow.params
    /\ flow.params["db_password"] # Masked
    /\ \E i \in 1..Len(out) :
           /\ out[i].kind = "preview"
           /\ "db_password" \in DOMAIN out[i].shown
           /\ out[i].shown["db_password"] = Masked

\* C17: the db_password collected in a create flow is never part of a prompt
\* sent to the external LLM, in particular not when a failed creation is
\* diagnosed.
C17_PasswordNeverSentToLlm ==
    \A i \in 1..Len(llm) :
        "db_password" \in DOMAIN llm[i].params =>
            llm[i].params["db_password"] = Masked

\* a failed creation was diagnosed with the help of the LLM
C17_Witness ==
    /\ flow.active /\ flow.type = "create_resource"
    /\ flow.error_occurred
    /\ call.fn = "create"
    /\ llm # <<>>
    /\ llm[1].params = flow.params

\* C18: at the destroy confirmation the destroy function is invoked exactly
\* when the reply contains 'yes' (in any case), even when it also contains
\* 'no'; a reply with 'no' and without 'yes' ends the flow without invoking
\* it; any other reply leaves the flow active, still awaiting the
\* confirmation of the same selected resource.
C18_DestroyConfirmationReplies ==
    [][\A m \in Msgs \cup {"YES no"} :
          (/\ flow.has_resources /\ ~flow.awaiting_selection
           /\ flow.awaiting_confirmation
           /\ DestroyFlowReply(m))
          => LET yes == Contains(Lower(m), "yes")
                 no == Contains(Lower(m), "no")
             IN /\ (call'.fn = "destroy") <=> yes
                /\ yes => /\ call'.id = flow.selected_resource[
                                            RESOURCE_DESTROY_IDS[flow.resource_type]]
                          /\ call'.msg = m
                /\ (~yes /\ no) => (~flow'.active /\ call' = NoCall)
                /\ (~yes /\ ~no) => /\ call' = NoCall
                                    /\ flow'.active
                                    /\ flow'.awaiting_confirmation
                                    /\ flow'.selected_resource = flow.selected_resource]_vars

\* a reply holding both words made the assistant destroy the resource
C18_Witness ==
    /\ flow.type = "destroy_resource"
    /\ call.fn = "destroy"
    /\ call.msg = "YES no"
    /\ call.id = flow.selected_resource[RESOURCE_DESTROY_IDS[flow.resource_type]]

(***************************************************************************)
(* Runs of _find_resource_by_identifier on listings whose display names    *)
(* may repeat, differ only in case, be empty or look like numbers.         *)
(***************************************************************************)
MaxListed ==
    3

\* Name tags (or identifiers) a listing may hold
ListedNames ==
    {"web", "Web", "2", "3", ""}

\* what the user may type at a selection prompt
SelectionInputs ==
    {"1", "1 ", "2", "3", "0", "-1", "web", "WEB", "i-1", "I-2", "bad", ""}

\* a listing of a type with the given display names
ListingOf(resource_type, names) ==
    [i \in 1..Len(names) |->
        IF resource_type = "ec2"
        THEN ("InstanceId" :> InstanceIds[i]) @@ ("Name" :> names[i])
        ELSE (RESOURCE_IDENTIFIERS[resource_type] :> names[i])]

FrbInputs ==
    {[pc |-> "ready", user_input |-> user_input,
      resources |-> ListingOf(resource_type, names),
      resource_type |-> resource_type, result |-> NoResource] :
        user_input \in SelectionInputs,
        resource_type \in {"ec2", "rds"},
        names \in UNION {[1..n -> ListedNames] : n \in 0..MaxListed}}

InitFind ==
    /\ flow = BlankFlow
    /\ turns = 0
    /\ out = <<>>
    /\ call = NoCall
    /\ lastPreview = NoPreview
    /\ prompted = <<>>
    /\ listed = NoListing
    /\ picked = NoPick
    /\ rejected = FALSE
    /\ llm = <<>>
    /\ frb \in FrbInputs
    /\ gmp = GmpIdle
    /\ xph = XphIdle
    /\ cls = ClsIdle
    /\ tfa = TfaIdle

\* _find_resource_by_identifier(user_input, resources, resource_type) returns
FrbRun ==
    /\ frb.pc = "ready"
    /\ frb' = [frb EXCEPT !.pc = "done",
                          !.result = FindResourceByIdentifier(
                                         frb.user_input, frb.resources, frb.resource_type)]
    /\ UNCHANGED <<flowVars, gmp, xph, cls, tfa>>

NextFind ==
    FrbRun

SpecFind ==
    InitFind /\ [][NextFind]_vars

\* positions of the resources whose display name or destroy ID equals the
\* input, letter case aside
NamedBy(user_input, resources, resource_type) ==
    {i \in 1..Len(resources) :
        \/ Lower(Get(resources[i], RESOURCE_IDENTIFIERS[resource_type], ""))
               = Lower(user_input)
        \/ Lower(Get(resources[i], RESOURCE_DESTROY_IDS[resource_type], ""))
               = Lower(user_input)}

\* C19: _find_resource_by_identifier returns None or an element of the
\* listing.  An input that is a number k with 1 <= k <= len(resources)
\* selects the k-th resource, even when a name or ID equals the input; any
\* other input (0, a negative or out-of-range number included) selects the
\* first resource whose display name or destroy ID equals the input, letter
\* case aside, and None when there is none.
C19_NumberThenNameOrId ==
    frb.pc = "done" =>
        LET n == ParseInt(Strip(frb.user_input))
            named == NamedBy(frb.user_input, frb.resources, frb.resource_type)
        IN /\ \/ frb.result = NoResource
              \/ \E i \in 1..Len(frb.resources) : frb.result = frb.resources[i]
           /\ IF n.ok /\ 1 <= n.val /\ n.val <= Len(frb.resources)
              THEN frb.result = frb.resources[n.val]
              ELSE IF named = {}
              THEN frb.result = NoResource
              ELSE frb.result =
                       frb.resources[CHOOSE i \in named : \A j \in named : i <= j]

\* the input "2" selected the second resource although the first one is
\* named "2"
C19_Witness ==
    /\ frb.pc = "done"
    /\ frb.resource_type = "ec2"
    /\ frb.user_input = "2"
    /\ Len(frb.resources) = 2
    /\ frb.resources[1]["Name"] = "2"
    /\ frb.result = frb.resources[2]

\* the last step reported the outcome of a destroy or of a modification
AttemptReported ==
    \E i \in 1..Len(out) :
        out[i].kind \in {"destroyed", "destroy_error", "modified", "modify_error"}

CreationFailed ==
    /\ call.fn = "create"
    /\ \E i \in 1..Len(out) : out[i].kind = "create_error"

\* C21: a failed creation leaves the flow active with error_occurred set
\* and flow params unchanged; a subsequent reply containing 'cancel' ends
\* the flow (active false, error_occurred false) without any further
\* Terraform invocation.
C21_FailedCreationThenCancel ==
    [][/\ (/\ \E m \in Msgs : CreateFlowReply(m)
           /\ CreationFailed')
          => /\ flow'.active
             /\ flow'.error_occurred
             /\ flow'.params = flow.params
             /\ call'.params = flow.params
       /\ \A m \in Msgs \cup {"cancel the retry"} :
             (/\ CreationFailed
              /\ Contains(Lower(m), "cancel")
              /\ CreateFlowReply(m))
             => /\ ~flow'.active
                /\ ~flow'.error_occurred
                /\ call' = NoCall]_vars

\* after a failed creation the reply 'cancel' ended the flow
C21_Witness ==
    /\ flow.type = "create_resource"
    /\ ~flow.active /\ ~flow.error_occurred
    /\ flow.confirmed
    /\ call = NoCall
    /\ \E i \in 1..Len(out) : out[i].kind = "cancelled"

====
